---- MODULE Spec2Model ----
(***************************************************************************)
(* Calendar view for the Tasks plugin: task discovery (loadTasks), the     *)
(* month grid (renderCalendar), month navigation (buttons, wheel, swipe)   *)
(* and the completion toggle protocol (toggleTaskCompletion) of            *)
(* src/main.ts, as state machines.                                         *)
(*                                                                         *)
(* Text is a tuple of one-character strings; the multi-byte characters of  *)
(* the source are named: "CAL" is the calendar emoji, "CHK" the check mark *)
(* and "WCM" the white heavy check mark.  A calendar day is the number of  *)
(* days since 0001-01-01 (a Monday) in the local time zone; a JS Date      *)
(* whose time of day does not matter is the record [y, m, d] of its local  *)
(* getFullYear(), getMonth() (0..11) and getDate().                        *)
(***************************************************************************)
EXTENDS Integers, Sequences, FiniteSets, TLC

VARIABLES
    notes,               \* vault: path -> content, a sequence of lines
    api,                 \* the Tasks plugin's apiV1 object, or NoApi
    host,                \* plugin settings and the local time zone of the host
    tasks,               \* TaskCalendarView.tasks
    today,               \* the local calendar day of the clock
    currentDate,         \* TaskCalendarView.currentDate
    showCompletedTasks,  \* TaskCalendarView.showCompletedTasks
    grid,                \* what renderCalendar last put in the grid container
    wheel,               \* closure state of addWheelHandler
    swipe,               \* closure state of addSwipeHandlers
    pendingSwipes,       \* handleSwipe calls waiting in their 200ms delay
    popup,               \* the TasksForDateModal: its date, its tasks, its swipe closure
    running,             \* the asynchronous calls in progress, each at one of its awaits
    last                 \* record of the last operation (history, for the properties)

vars == <<notes, api, host, tasks, today, currentDate, showCompletedTasks, grid,
          wheel, swipe, pendingSwipes, popup, running, last>>

(***************************************************************************)
(* Bounds of the model.                                                    *)
(***************************************************************************)
MinYear == 2024
MaxYear == 2025
MaxPendingSwipes == 1
MaxAccum == 200

(***************************************************************************)
(* Calendar arithmetic of the JS Date object (local time).                 *)
(***************************************************************************)
IsLeap(y) == (y % 4 = 0 /\ y % 100 # 0) \/ y % 400 = 0

DaysInMonth(y, m) ==
    IF m = 1 THEN (IF IsLeap(y) THEN 29 ELSE 28)
    ELSE IF m \in {3, 5, 8, 10} THEN 30 ELSE 31

\* days from 0001-01-01 to January 1st of year y
EpochDays(y) == 365 * (y - 1) + ((y - 1) \div 4) - ((y - 1) \div 100) + ((y - 1) \div 400)

RECURSIVE DaysBeforeMonth(_, _)
DaysBeforeMonth(y, m) ==
    IF m = 0 THEN 0 ELSE DaysBeforeMonth(y, m - 1) + DaysInMonth(y, m - 1)

\* ECMAScript MakeDay: month and date may lie outside their ranges and carry over
MakeDay(y, m, dt) ==
    LET yy == y + (m \div 12)
        mm == m % 12
    IN  EpochDays(yy) + DaysBeforeMonth(yy, mm) + dt - 1

\* the first and last day the model computes with
FirstDay == EpochDays(MinYear - 2)
LastDay == EpochDays(MaxYear + 3) - 1

YearOfDay(n) == CHOOSE y \in (MinYear - 2)..(MaxYear + 2) :
                    EpochDays(y) <= n /\ n < EpochDays(y + 1)

MonthOfDay(n) ==
    LET y == YearOfDay(n)
    IN  CHOOSE m \in 0..11 :
            /\ MakeDay(y, m, 1) <= n
            /\ n < MakeDay(y, m, 1) + DaysInMonth(y, m)

\* the local fields (getFullYear, getMonth, getDate) of every day, computed once
DateTable ==
    [n \in FirstDay..LastDay |->
        LET y == YearOfDay(n)
            m == MonthOfDay(n)
        IN  [y |-> y, m |-> m, d |-> n - MakeDay(y, m, 1) + 1]]

\* the local fields of the Date at day n
DateOfDay(n) == DateTable[n]

DayOfDate(dt) == MakeDay(dt.y, dt.m, dt.d)

\* Date.prototype.getDay: 0 = Sunday .. 6 = Saturday
GetDay(n) == (n + 1) % 7

\* Date.prototype.setMonth(month): the day of the month is kept and carries over
SetMonth(dt, month) == DateOfDay(MakeDay(dt.y, month, dt.d))

\* Date.prototype.setDate(date)
SetDate(dt, date) == DateOfDay(MakeDay(dt.y, dt.m, date))

\* (year, month) as one number, to compare displayed months
MonthIndex(dt) == dt.y * 12 + dt.m

(***************************************************************************)
(* Text.  The checklist pattern of the source's regular expressions is    *)
(* indentation, a bullet (dash or star), whitespace, a marker in brackets;  *)
(* the full form goes on with whitespace and a non-empty text to the end.  *)
(* It is matched on a line, a tuple of characters.                         *)
(***************************************************************************)
Markers == {" ", "x", "X", "CHK", "WCM"}
\* the class \s: blank, tab and the newline "NL"
IsWs(c) == c \in {" ", "TAB", "NL"}

\* the number of whitespace characters of s from position i on
RECURSIVE WsRun(_, _)
WsRun(s, i) == IF i <= Len(s) /\ IsWs(s[i]) THEN 1 + WsRun(s, i + 1) ELSE 0

\* String.prototype.includes for one character
Includes(s, c) == \E i \in 1..Len(s) : s[i] = c

\* the match of the checklist pattern on line s: indent is the length of the
\* indentation, gap the length of the first whitespace run, marker the character in brackets;
\* full says that whitespace and a text follow the bracket, and text is that text
MatchTask(s) ==
    LET indent == WsRun(s, 1)
        b == indent + 1
        gap == WsRun(s, b + 1)
        o == b + 1 + gap
        prefix == /\ b <= Len(s) /\ s[b] \in {"-", "*"}
                  /\ gap >= 1
                  /\ o + 2 <= Len(s)
                  /\ s[o] = "[" /\ s[o + 1] \in Markers /\ s[o + 2] = "]"
        r == o + 3
        ws == WsRun(s, r)
        \* the text must be non-empty and hold no newline
        full == /\ prefix /\ ws >= 1 /\ Len(s) >= r + 1
                /\ s[Len(s)] # "NL"
                /\ \A k \in (r + ws)..Len(s) : s[k] # "NL"
        \* the whitespace run is greedy and gives one character back when the rest is all blank
        from == IF r + ws <= Len(s) THEN r + ws ELSE Len(s)
    IN  [prefix |-> prefix, full |-> full, indent |-> indent, bullet |-> b,
         gap |-> gap,
         marker |-> IF prefix THEN s[o + 1] ELSE "",
         text |-> IF full THEN SubSeq(s, from, Len(s)) ELSE <<>>]

\* completed: the marker is not blank
IsDone(marker) == marker # " " /\ marker # ""

\* nextLine.trim() === ''
IsBlank(s) == WsRun(s, 1) = Len(s)

\* variant: a blank line ends the nested lines
RECURSIVE NestedLinesToBlank(_, _, _)
NestedLinesToBlank(lines, j, indent) ==
    IF j > Len(lines) THEN <<>>
    ELSE IF ~IsBlank(lines[j]) /\ WsRun(lines[j], 1) > indent
         THEN <<lines[j]>> \o NestedLinesToBlank(lines, j + 1, indent)
         ELSE <<>>

\* the nested lines of the task at line i (one-based) with indentation indent:
\* the following lines that are blank or indented deeper, up to the first other line
RECURSIVE NestedLines(_, _, _)
NestedLines(lines, j, indent) ==
    IF j > Len(lines) THEN <<>>
    ELSE IF IsBlank(lines[j]) \/ WsRun(lines[j], 1) > indent
         THEN <<lines[j]>> \o NestedLines(lines, j + 1, indent)
         ELSE <<>>

\* Array.prototype.join('\n'); "NL" is the newline character
RECURSIVE JoinLines(_)
JoinLines(lines) ==
    IF Len(lines) = 0 THEN <<>>
    ELSE IF Len(lines) = 1 THEN lines[1]
    ELSE lines[1] \o <<"NL">> \o JoinLines(Tail(lines))

\* String.prototype.split('\n')
RECURSIVE SplitLinesFrom(_, _, _)
SplitLinesFrom(s, i, cur) ==
    IF i > Len(s) THEN <<cur>>
    ELSE IF s[i] = "NL" THEN <<cur>> \o SplitLinesFrom(s, i + 1, <<>>)
    ELSE SplitLinesFrom(s, i + 1, Append(cur, s[i]))

SplitLines(s) == SplitLinesFrom(s, 1, <<>>)

(***************************************************************************)
(* A Task (src/types.ts): text, date (a calendar day, normalised to        *)
(* midnight), the path of its file, its zero-based line and isCompleted.   *)
(***************************************************************************)
Task(text, date, path, line, isCompleted) ==
    [text |-> text, date |-> date, time |-> 0, path |-> path, line |-> line,
     isCompleted |-> isCompleted]

(***************************************************************************)
(* getTasksForDate and getOverdueTasks: the queries of the grid, over the  *)
(* task list ts with the clock at day td.                                  *)
(***************************************************************************)
\* variant: incomplete tasks stay on the cell of their past date
getTasksForDateKeepsPast(ts, td, date) ==
    LET keep(task) == task.date = date
    IN  SelectSeq(ts, keep)

getTasksForDate(ts, td, date) ==
    LET isPastDate == date < td
        keep(task) == /\ task.date = date
                      /\ ~(isPastDate /\ ~task.isCompleted)
    IN  SelectSeq(ts, keep)

\* variant: completion is not looked at
getOverdueTasksAnyStatus(ts, td) ==
    LET keep(task) == ~(task.date >= td)
    IN  SelectSeq(ts, keep)

getOverdueTasks(ts, td) ==
    LET keep(task) == /\ ~(task.date >= td)
                      /\ ~task.isCompleted
    IN  SelectSeq(ts, keep)

\* variant: the list is left in the order of the task list
SortKeepsOrder(dayTasks) == dayTasks

\* [...dayTasks].sort(incomplete first): the sort is stable
SortIncompleteFirst(dayTasks) ==
    LET open(task) == ~task.isCompleted
        done(task) == task.isCompleted
    IN  SelectSeq(dayTasks, open) \o SelectSeq(dayTasks, done)

(***************************************************************************)
(* renderCalendar: the message when there is no task, else the 42 cells.   *)
(***************************************************************************)
GridCells == 42

\* the task list bound to the cell of cellDay
CellTasks(ts, td, show, cellDay) ==
    LET dayTasks == IF cellDay = td
                    THEN getOverdueTasks(ts, td) \o getTasksForDate(ts, td, cellDay)
                    ELSE getTasksForDate(ts, td, cellDay)
        open(task) == ~task.isCompleted
        shown == IF ~show THEN SelectSeq(dayTasks, open) ELSE dayTasks
    IN  SortIncompleteFirst(shown)

\* variant: the week starts on Sunday
GridStartSunday(cur) ==
    LET firstDay == DateOfDay(MakeDay(cur.y, cur.m, 1))
        firstDayOfWeek == GetDay(DayOfDate(firstDay))
    IN  SetDate(firstDay, firstDay.d - firstDayOfWeek)

\* the first cell: the Monday on or before the 1st of the month
GridStart(cur) ==
    LET firstDay == DateOfDay(MakeDay(cur.y, cur.m, 1))
        firstDayOfWeek == GetDay(DayOfDate(firstDay))
        daysToSubtract == IF firstDayOfWeek = 0 THEN 6 ELSE firstDayOfWeek - 1
    IN  SetDate(firstDay, firstDay.d - daysToSubtract)

RenderCells(ts, td, show, cur) ==
    LET startDate == GridStart(cur)
    IN  [i \in 1..GridCells |->
            LET cellDate == SetDate(startDate, startDate.d + (i - 1))
                cellDay == DayOfDate(cellDate)
            IN  [date |-> cellDay,
                 otherMonth |-> cellDate.m # cur.m,
                 isToday |-> cellDay = td,
                 tasks |-> CellTasks(ts, td, show, cellDay)]]

\* renderCalendar: the grid container holds the message when there is no task,
\* else the cells of the month of cur, built from ts, td and show as they are now
renderCalendar(ts, td, show, cur) ==
    [kind |-> IF Len(ts) = 0 THEN "empty" ELSE "grid",
     year |-> cur.y, month |-> cur.m, tasks |-> ts, today |-> td, show |-> show]

\* the cells a rendering g put in the grid container
Cells(g) ==
    IF g.kind = "grid"
    THEN RenderCells(g.tasks, g.today, g.show, [y |-> g.year, m |-> g.month, d |-> 1])
    ELSE <<>>

NoGrid == [kind |-> "none", year |-> 0, month |-> 0, tasks |-> <<>>, today |-> 0,
           show |-> TRUE]

(***************************************************************************)
(* Values of the variables an operation does not use.                      *)
(***************************************************************************)
NoApi == [present |-> FALSE]
HostDefault ==
    [calendarFolderPath |-> <<>>, filenameFormat |-> "YYYY-MM", tzWest |-> FALSE,
     command |-> FALSE, commandIds |-> {}, createTaskFolderPath |-> <<>>]
NoLast == [op |-> "none", dir |-> 0, from |-> 0]
WheelInit == [accumulatedDelta |-> 0, since |-> 300, resetTimeout |-> -1,
              sinceChange |-> 300]
\* the variables of addSwipeHandlers (touchIdentifier -1 is null), and of the
\* finger on the screen: the element it went down on ("none" when it is up),
\* whether a move of the gesture was seen to be horizontal, and the day of the
\* cell when the finger went down on a cell with tasks
SwipeIdle == [swipeStartX |-> 0, swipeStartY |-> 0, elapsed |-> 0,
              isSwiping |-> FALSE, touchIdentifier |-> -1,
              target |-> "none", horizontalSeen |-> FALSE, cell |-> 0]

\* the variables of the popup's addSwipeHandlers, and the element the finger
\* went down on ("none" when it is up)
PopupSwipeIdle == [swipeStartX |-> 0, swipeStartY |-> 0, isSwiping |-> FALSE,
                   touchIdentifier |-> -1, target |-> "none"]

\* what the popup shows in each of its sections: "none" before onOpen has filled
\* the popup, then "absent" for a section without tasks, "query" for the output of
\* the external renderer, "manual" for the rendered markdown of the section's
\* tasks, "blank" for a section with nothing a task can be recognised in
NoSections == [overdue |-> "none", current |-> "none", completed |-> "none"]

\* no popup is open; pending holds the callbacks of committed swipes that wait
\* in their 200ms delay
NoPopup == [open |-> FALSE, date |-> 0, tasks |-> <<>>, swipe |-> PopupSwipeIdle,
            pending |-> <<>>, sections |-> NoSections, bound |-> <<>>]

\* the days on which the view is opened in the model
TodayChoices ==
    { MakeDay(MinYear, 0, 31), MakeDay(MinYear, 1, 29), MakeDay(MinYear, 4, 15),
      MakeDay(MaxYear, 11, 30) }

InRange(dt) == dt.y \in MinYear..MaxYear

(***************************************************************************)
(* Month navigation: the prev/next buttons and the month/year button of    *)
(* render(), the wheel handler and handleSwipe.  Every handler changes     *)
(* currentDate in place with setMonth and then calls renderCalendar.       *)
(***************************************************************************)
NavRecord(op, dir) ==
    [op |-> op, dir |-> dir, from |-> MonthIndex(currentDate)]

ChangeMonth(op, dir) ==
    LET nd == SetMonth(currentDate, currentDate.m + dir)
    IN  /\ InRange(nd)
        /\ currentDate' = nd
        /\ last' = NavRecord(op, dir)
        /\ grid' = renderCalendar(tasks, today, showCompletedTasks, nd)

PrevClick ==
    /\ UNCHANGED <<notes, api, host, running, popup, tasks, today, showCompletedTasks, wheel, swipe, pendingSwipes>>
    /\ ChangeMonth("prev", -1)

NextClick ==
    /\ UNCHANGED <<notes, api, host, running, popup, tasks, today, showCompletedTasks, wheel, swipe, pendingSwipes>>
    /\ ChangeMonth("next", 1)

MonthYearClick ==
    /\ UNCHANGED <<notes, api, host, running, popup, tasks, today, showCompletedTasks, wheel, swipe, pendingSwipes>>
    /\ currentDate' = DateOfDay(today)
    /\ last' = NavRecord("today", 0)
    /\ grid' = renderCalendar(tasks, today, showCompletedTasks, DateOfDay(today))

SCROLL_THRESHOLD == 100
MIN_SCROLL_INTERVAL == 300
RESET_DELAY == 300

WheelDeltas == {-100, -50, 50, 100}
TimeSteps == {150}

Abs(x) == IF x < 0 THEN -x ELSE x
Min(a, b) == IF a < b THEN a ELSE b

\* what a wheel event over the grid did: the accumulated delta after deltaY was
\* added, the date displayed before it, the time that had passed on the clock
\* since the last change of month a wheel event made, and the accumulated delta
\* and the time left on resetTimeout (-1: none is set) when the event arrived
WheelRecord(op, dir, acc) ==
    [op |-> op, dir |-> dir, from |-> MonthIndex(currentDate), acc |-> acc,
     fromDate |-> currentDate, gap |-> wheel.sinceChange,
     before |-> wheel.accumulatedDelta, timer |-> wheel.resetTimeout]

\* handleWheel(e): overGrid says whether e.target is inside the grid container
handleWheel(overGrid, deltaY) ==
    /\ UNCHANGED <<notes, api, host, running, popup, tasks, today, showCompletedTasks, swipe, pendingSwipes>>
    /\ IF ~overGrid
       THEN UNCHANGED <<wheel, currentDate, grid, last>>
       ELSE LET acc == wheel.accumulatedDelta + deltaY
                fire == wheel.since >= MIN_SCROLL_INTERVAL /\ Abs(acc) >= SCROLL_THRESHOLD
                direction == IF acc > 0 THEN 1 ELSE -1
            IN  /\ Abs(acc) <= MaxAccum
                /\ IF fire
                   THEN \E nd \in {SetMonth(currentDate, currentDate.m + direction)} :
                           /\ InRange(nd)
                           /\ wheel' = [accumulatedDelta |-> 0, since |-> 0,
                                        resetTimeout |-> RESET_DELAY, sinceChange |-> 0]
                           /\ currentDate' = nd
                           /\ grid' = renderCalendar(tasks, today, showCompletedTasks, nd)
                           /\ last' = WheelRecord("wheel", direction, acc)
                   ELSE /\ wheel' = [wheel EXCEPT !.accumulatedDelta = acc,
                                                  !.resetTimeout = RESET_DELAY]
                        /\ last' = WheelRecord("nowheel", 0, acc)
                        /\ UNCHANGED <<currentDate, grid>>

WheelEvent == \E overGrid \in BOOLEAN, deltaY \in WheelDeltas : handleWheel(overGrid, deltaY)

\* the callback of resetTimeout
WheelResetTimeout ==
    /\ wheel.resetTimeout = 0
    /\ wheel' = [wheel EXCEPT !.accumulatedDelta = 0, !.resetTimeout = -1]
    /\ UNCHANGED <<notes, api, host, running, popup, tasks, today, currentDate, showCompletedTasks, grid,
                   swipe, pendingSwipes, last>>

\* time passes; a due timer runs before any later event
TimePasses ==
    \E dt \in TimeSteps :
        /\ wheel.resetTimeout = -1 \/ dt <= wheel.resetTimeout
        /\ \/ wheel.since < MIN_SCROLL_INTERVAL
           \/ wheel.sinceChange < MIN_SCROLL_INTERVAL
           \/ wheel.resetTimeout > 0
        /\ wheel' = [wheel EXCEPT
                        !.since = Min(@ + dt, MIN_SCROLL_INTERVAL),
                        !.sinceChange = Min(@ + dt, MIN_SCROLL_INTERVAL),
                        !.resetTimeout = IF @ = -1 THEN -1 ELSE @ - dt]
        /\ UNCHANGED <<notes, api, host, running, popup, tasks, today, currentDate, showCompletedTasks, grid,
                       swipe, pendingSwipes, last>>

\* this.view.render() at the end of a successful toggle in the popup of a day:
\* the container is emptied and built anew, and addWheelHandler and
\* addSwipeHandlers make new closures, whose variables start from their initial
\* values; a pending resetTimeout belongs to the closure that was replaced
ViewRender ==
    /\ wheel' = [WheelInit EXCEPT !.sinceChange = wheel.sinceChange]
    /\ swipe' = SwipeIdle
    /\ grid' = renderCalendar(tasks, today, showCompletedTasks, currentDate)
    /\ last' = [op |-> "render", dir |-> 0, from |-> MonthIndex(currentDate)]
    /\ UNCHANGED <<notes, api, host, running, popup, tasks, today, currentDate, showCompletedTasks,
                   pendingSwipes>>

\* handleSwipe(direction) up to its 200ms delay
handleSwipeBegin(direction) ==
    /\ Len(pendingSwipes) < MaxPendingSwipes
    /\ pendingSwipes' = Append(pendingSwipes, direction)

\* handleSwipe(direction) after the delay: setMonth, then renderCalendar
handleSwipeResume ==
    /\ pendingSwipes # <<>>
    /\ pendingSwipes' = Tail(pendingSwipes)
    /\ ChangeMonth("swipe", Head(pendingSwipes))
    /\ UNCHANGED <<notes, api, host, running, popup, tasks, today, showCompletedTasks, wheel, swipe>>

\* a committed swipe gesture (handleSwipeEndCommon calls handleSwipe)
SwipeCommitted ==
    \E direction \in {-1, 1} :
        /\ handleSwipeBegin(direction)
        /\ UNCHANGED <<notes, api, host, running, popup, tasks, today, currentDate, showCompletedTasks, grid,
                       wheel, swipe, last>>

SampleText == <<"a", " ", "CAL">>

InitNav ==
    /\ notes = <<>>
    /\ api = NoApi
    /\ host = HostDefault
    /\ popup = NoPopup
    /\ today \in TodayChoices
    /\ tasks = <<Task(SampleText, today, "p", 0, FALSE)>>
    /\ currentDate = DateOfDay(today)
    /\ showCompletedTasks = TRUE
    /\ grid = renderCalendar(tasks, today, showCompletedTasks, currentDate)
    /\ wheel = WheelInit
    /\ swipe = SwipeIdle
    /\ pendingSwipes = <<>>
    /\ running = <<>>
    /\ last = NoLast

NextNav ==
    \/ PrevClick
    \/ NextClick
    \/ MonthYearClick
    \/ WheelEvent
    \/ WheelResetTimeout
    \/ TimePasses
    \/ ViewRender
    \/ SwipeCommitted
    \/ handleSwipeResume

SpecNav == InitNav /\ [][NextNav]_vars

\* C9: every prev/next click, wheel-triggered change and committed swipe moves the
\* displayed (year, month) to exactly the adjacent month in the requested direction.
C9_AdjacentMonth ==
    last.op \in {"prev", "next", "wheel", "swipe"} =>
        MonthIndex(currentDate) = last.from + last.dir

\* C17: a wheel event over the grid changes the month exactly when, with its
\* deltaY added, the accumulated delta is at least 100 in magnitude and at least
\* 300ms have passed since the last change of month a wheel event made; the
\* change is one setMonth step towards the next month for a positive sum and
\* towards the previous month for a negative one, the accumulator is 0 after it,
\* and no two such changes are less than 300ms apart.
C17_WheelChange ==
    /\ last.op \in {"wheel", "nowheel"} =>
          (last.op = "wheel" <=>
              (Abs(last.acc) >= SCROLL_THRESHOLD /\ last.gap >= MIN_SCROLL_INTERVAL))
    /\ last.op = "wheel" =>
          /\ last.dir = (IF last.acc > 0 THEN 1 ELSE -1)
          /\ currentDate = SetMonth(last.fromDate, last.fromDate.m + last.dir)
          /\ wheel.accumulatedDelta = 0
          /\ last.gap >= MIN_SCROLL_INTERVAL

\* C40: a change to the next month followed by a change to the previous month, or
\* the reverse, by the buttons or by swipes, shows the (year, month) that was shown
\* before the first of the two.
C40_RoundTrip ==
    [][ ( /\ last.op \in {"prev", "next", "swipe"}
          /\ last'.op \in {"prev", "next", "swipe"}
          /\ last.dir # 0
          /\ last'.dir = -last.dir )
        => MonthIndex(currentDate') = last.from ]_vars

(***************************************************************************)
(* The calendar with a task list: the grid of the months reached with the  *)
(* buttons, and the filter button of render().                             *)
(***************************************************************************)
MaxCalTasks == 2

CalTodays == { MakeDay(MinYear, 0, 31), MakeDay(MinYear, 2, 1) }

\* task dates around the clock: yesterday and today
CalOffsets == {-1, 0}

RECURSIVE SeqsUpTo(_, _)
SeqsUpTo(S, n) ==
    IF n = 0 THEN {<<>>}
    ELSE LET shorter == SeqsUpTo(S, n - 1)
         IN  shorter \cup {Append(q, x) : q \in {r \in shorter : Len(r) = n - 1}, x \in S}

\* task lists as loadTasks leaves them: the (path, line) keys are distinct
CalTaskLists(td) ==
    LET shapes == SeqsUpTo(CalOffsets \X BOOLEAN, MaxCalTasks)
    IN  { [i \in 1..Len(q) |-> Task(SampleText, td + q[i][1], "p", i - 1, q[i][2])] :
            q \in shapes }

FilterClick ==
    /\ showCompletedTasks' = ~showCompletedTasks
    /\ grid' = renderCalendar(tasks, today, showCompletedTasks', currentDate)
    /\ last' = NoLast
    /\ UNCHANGED <<notes, api, host, running, popup, tasks, today, currentDate, wheel, swipe, pendingSwipes>>

InitCal ==
    /\ notes = <<>>
    /\ api = NoApi
    /\ host = HostDefault
    /\ popup = NoPopup
    /\ today \in CalTodays
    /\ tasks \in CalTaskLists(today)
    /\ currentDate = DateOfDay(today)
    /\ showCompletedTasks \in BOOLEAN
    /\ grid = renderCalendar(tasks, today, showCompletedTasks, currentDate)
    /\ wheel = WheelInit
    /\ swipe = SwipeIdle
    /\ pendingSwipes = <<>>
    /\ running = <<>>
    /\ last = NoLast

NextCal ==
    \/ PrevClick
    \/ NextClick
    \/ MonthYearClick
    \/ FilterClick

SpecCal == InitCal /\ [][NextCal]_vars

InSeq(x, q) == \E k \in 1..Len(q) : q[k] = x

IsOverdue(task, td) == ~task.isCompleted /\ task.date < td

\* C3: every incomplete task dated before today is in the task list of today's
\* cell, the overdue tasks first and then the tasks dated today, and is in the task
\* list of no other cell (so of no cell before today).
C3_OverdueOnTodayCell ==
    grid.kind = "grid" =>
        LET late(task) == IsOverdue(task, grid.today)
        IN  \A cells \in {Cells(grid)}, overdue \in {SelectSeq(grid.tasks, late)} :
            \A i \in 1..Len(cells) :
                IF cells[i].date = grid.today
                THEN /\ Len(cells[i].tasks) >= Len(overdue)
                     /\ SubSeq(cells[i].tasks, 1, Len(overdue)) = overdue
                     /\ \A k \in (Len(overdue) + 1)..Len(cells[i].tasks) :
                            cells[i].tasks[k].date = grid.today
                ELSE \A k \in 1..Len(cells[i].tasks) : ~late(cells[i].tasks[k])

\* a rendered grid that holds today's cell and the cell of an overdue task's date
C3_Witness ==
    /\ grid.kind = "grid"
    /\ last.op \in {"prev", "next"}
    /\ \E cells \in {Cells(grid)} : \E i, j \in 1..GridCells :
        /\ cells[i].date = grid.today
        /\ Len(cells[i].tasks) = 2
        /\ IsOverdue(cells[i].tasks[1], grid.today)
        /\ cells[i].tasks[2].date = grid.today
        /\ cells[j].date = cells[i].tasks[1].date

\* the days the queries are asked about
QueryDays == { today + k : k \in -2..1 }

\* C4: a completed task dated before today is not in overdueTasks() and is in
\* tasksOnDate of its date; tasksOnDate(d) is the tasks dated d, without the
\* incomplete ones when d is before today.
C4_Queries ==
    /\ \A k \in 1..Len(tasks) :
         (tasks[k].isCompleted /\ tasks[k].date < today) =>
            /\ ~InSeq(tasks[k], getOverdueTasks(tasks, today))
            /\ InSeq(tasks[k], getTasksForDate(tasks, today, tasks[k].date))
    /\ \A d \in QueryDays :
         LET onDay(task) == task.date = d /\ (d < today => task.isCompleted)
         IN  getTasksForDate(tasks, today, d) = SelectSeq(tasks, onDay)

\* a completed and an incomplete task, both dated yesterday
C4_Witness ==
    /\ last.op = "today"
    /\ grid.kind = "grid"
    /\ Len(tasks) = 2
    /\ tasks[1].date = today - 1 /\ tasks[1].isCompleted
    /\ tasks[2].date = today - 1 /\ ~tasks[2].isCompleted
    /\ getOverdueTasks(tasks, today) = <<tasks[2]>>
    /\ getTasksForDate(tasks, today, today - 1) = <<tasks[1]>>

\* C8: a generated grid has 42 cells of 42 consecutive days, starts on a Monday on
\* or before the 1st of the current month, and holds the 1st at an index in 0..6.
C8_GridShape ==
    grid.kind = "grid" =>
        \A cells \in {Cells(grid)}, first \in {MakeDay(currentDate.y, currentDate.m, 1)} :
            /\ grid.year = currentDate.y /\ grid.month = currentDate.m
            /\ Len(cells) = 42
            /\ \A i \in 1..Len(cells) : cells[i].date = cells[1].date + (i - 1)
            /\ cells[1].date % 7 = 0
            /\ cells[1].date <= first
            /\ \E idx \in 0..6 : cells[idx + 1].date = first

\* the grid of a month that begins on a Sunday, reached by navigation
C8_Witness ==
    /\ grid.kind = "grid"
    /\ last.op = "next"
    /\ Cells(grid)[7].date = MakeDay(currentDate.y, currentDate.m, 1)

\* C25: the list bound to each cell holds the cell's tasks, without the completed
\* ones when completed tasks are hidden, with every incomplete task before every
\* completed one and the order of the task list kept inside each group.
C25_CellList ==
    grid.kind = "grid" =>
        \A cells \in {Cells(grid)} :
           \A i \in 1..Len(cells) :
              LET open(task) == ~task.isCompleted
                  done(task) == task.isCompleted
                  forDate == getTasksForDate(tasks, today, cells[i].date)
                  base == IF cells[i].date = today
                          THEN getOverdueTasks(tasks, today) \o forDate ELSE forDate
                  list == cells[i].tasks
              IN  /\ SelectSeq(list, open) = SelectSeq(base, open)
                  /\ SelectSeq(list, done) =
                        (IF showCompletedTasks THEN SelectSeq(base, done) ELSE <<>>)
                  /\ \A j, k \in 1..Len(list) :
                        (list[j].isCompleted /\ ~list[k].isCompleted) => k < j

\* a cell of the next month's grid whose two tasks are bound in the other order
\* than the task list has them
C25_Witness ==
    /\ grid.kind = "grid"
    /\ last.op = "next"
    /\ showCompletedTasks
    /\ Len(tasks) = 2
    /\ tasks[1].isCompleted /\ ~tasks[2].isCompleted
    /\ \E i \in 1..GridCells : Cells(grid)[i].tasks = <<tasks[2], tasks[1]>>

\* C24: every call of renderCalendar leaves the 42 cells of the current month in
\* the grid container, whatever the task list holds, the empty list included.
C24_GridWhateverTasks ==
    grid.kind # "none" =>
        /\ grid.kind = "grid"
        /\ grid.year = currentDate.y /\ grid.month = currentDate.m
        /\ Len(Cells(grid)) = GridCells

(***************************************************************************)
(* Task discovery: loadTasks with its two strategies, loadTasksFromAPI and *)
(* loadTasksManually.                                                      *)
(***************************************************************************)
CAL == "CAL"

\* variant: every text counts as carrying the marker
HasCalendarMarkerAlways(text) == TRUE

\* text.includes of the calendar emoji
HasCalendarMarker(text) == Includes(text, CAL)

\* the date tokens YYYY-MM-DD of the model's texts, with their fields
IsoTokens ==
    {"2024-01-10", "2024-01-20", "2024-01-25", "2024-01-30", "2024-02-31", "2024-03-01"}
IsoFields(tok) ==
    IF tok = "2024-01-10" THEN <<2024, 1, 10>>
    ELSE IF tok = "2024-01-20" THEN <<2024, 1, 20>>
    ELSE IF tok = "2024-01-25" THEN <<2024, 1, 25>>
    ELSE IF tok = "2024-01-30" THEN <<2024, 1, 30>>
    ELSE IF tok = "2024-02-31" THEN <<2024, 2, 31>>
    ELSE <<2024, 3, 1>>

\* the words a date token can follow in the first pattern of extractDateFromText
DateKeys == {CAL, "due::"}

\* a Date value: the local calendar day and the minutes since local midnight
\* variant: the time of day is kept
setHoursKept(d) == d

\* date.setHours(0, 0, 0, 0)
setHours(d) == [d EXCEPT !.time = 0]

\* the local time of midnight UTC west of Greenwich (19:00 at UTC-5), in minutes,
\* and the time of day of the clock when new Date() is called
WestMinutes == 1140
ClockMinutes == 615

\* new Date("YYYY-MM-DD"): the string is read as midnight UTC, which west of
\* Greenwich is still the evening of the day before
NewDate(tok, tzWest) ==
    LET f == IsoFields(tok)
        \* the host's engine accepts a day of 1..31 in any month and carries the
        \* excess into the next month
        valid == f[2] \in 1..12 /\ f[3] \in 1..31
    IN  IF valid
        THEN [valid |-> TRUE,
              day |-> MakeDay(f[1], f[2] - 1, f[3]) - (IF tzWest THEN 1 ELSE 0),
              time |-> IF tzWest THEN WestMinutes ELSE 0]
        ELSE [valid |-> FALSE, day |-> 0, time |-> 0]

\* new Date("YYYY-MM-DD") followed by setHours(0, 0, 0, 0)
NewDateIso(tok, tzWest) ==
    LET date == NewDate(tok, tzWest)
    IN  IF date.valid THEN setHours(date) ELSE date

NoDate == [valid |-> FALSE, day |-> 0, time |-> 0]

\* new Date() with the clock at day td
Now(td) == [valid |-> TRUE, day |-> td, time |-> ClockMinutes]

\* extractDateFromText: the token after a date word, else the first date
\* token of the text (the texts of the model hold no DD/MM/YYYY or DD.MM.YYYY)
extractDateFromText(text, tzWest) ==
    LET afterCal == { i \in 1..Len(text) :
                        /\ text[i] \in DateKeys
                        /\ i + 1 + WsRun(text, i + 1) <= Len(text)
                        /\ text[i + 1 + WsRun(text, i + 1)] \in IsoTokens }
        anyIso == { i \in 1..Len(text) : text[i] \in IsoTokens }
        first(S) == CHOOSE i \in S : \A j \in S : i <= j
        d1 == IF afterCal = {} THEN NoDate
              ELSE LET i == first(afterCal)
                   IN  NewDateIso(text[i + 1 + WsRun(text, i + 1)], tzWest)
        d2 == IF anyIso = {} THEN NoDate ELSE NewDateIso(text[first(anyIso)], tzWest)
    IN  IF d1.valid THEN d1 ELSE d2

\* file.basename: the token before the extension
Basename(path) == path[Len(path) - 1]

\* the month notes of the model, with year and month
MonthTokens == {"2024-01", "2024-02", "2024-03"}
MonthFields(tok) ==
    IF tok = "2024-01" THEN <<2024, 1>>
    ELSE IF tok = "2024-02" THEN <<2024, 2>>
    ELSE <<2024, 3>>

\* moment(fileName, format, true).toDate() with format defaulting to YYYY-MM: the
\* strict parse of a name YYYY-NN reads NN as the month under YYYY-MM and as the
\* day of January under YYYY-DD, and fails under the other formats of the model
ConfiguredDate(path, format) ==
    LET fileName == Basename(path)
        fmt == IF format = "" THEN "YYYY-MM" ELSE format
    IN  IF fileName \in MonthTokens /\ fmt = "YYYY-MM"
        THEN [valid |-> TRUE,
              day |-> MakeDay(MonthFields(fileName)[1], MonthFields(fileName)[2] - 1, 1),
              time |-> 0]
        ELSE IF fileName \in MonthTokens /\ fmt = "YYYY-DD"
        THEN [valid |-> TRUE,
              day |-> MakeDay(MonthFields(fileName)[1], 0, MonthFields(fileName)[2]),
              time |-> 0]
        ELSE NoDate

\* the legacy pattern /^\d{4}-\d{2}$/: new Date(year, month - 1, 1)
LegacyDate(path) ==
    LET fileName == Basename(path)
    IN  IF fileName \in MonthTokens
        THEN [valid |-> TRUE,
              day |-> MakeDay(MonthFields(fileName)[1], MonthFields(fileName)[2] - 1, 1),
              time |-> 0]
        ELSE NoDate

\* the date of the file name: moment(fileName, format, true), else the legacy
\* pattern YYYY-MM, else today
FileDate(path, format, td) ==
    IF ConfiguredDate(path, format).valid THEN ConfiguredDate(path, format)
    ELSE IF LegacyDate(path).valid THEN LegacyDate(path)
    ELSE setHours(Now(td))

\* the task pushed into this.tasks, its date normalised to the start of the day
LoadedTask(text, taskDate, path, line, isCompleted) ==
    LET date == setHours(taskDate)
    IN  [text |-> text, date |-> date.day, time |-> date.time, path |-> path,
         line |-> line, isCompleted |-> isCompleted]

\* path.replace(/^\/+|\/+$/g, '')
RECURSIVE TrimSlashes(_)
TrimSlashes(path) ==
    IF Len(path) > 0 /\ path[1] = "/" THEN TrimSlashes(Tail(path))
    ELSE IF Len(path) > 0 /\ path[Len(path)] = "/"
         THEN TrimSlashes(SubSeq(path, 1, Len(path) - 1))
         ELSE path

StartsWith(s, prefix) ==
    Len(prefix) <= Len(s) /\ SubSeq(s, 1, Len(prefix)) = prefix

\* the folder filter of both strategies
InScanScope(path, hst) ==
    LET normalizedFolderPath == TrimSlashes(hst.calendarFolderPath)
    IN  normalizedFolderPath = <<>> \/ StartsWith(TrimSlashes(path), normalizedFolderPath)

\* the text of a task: its own text and, when it has nested lines, a newline and
\* the nested lines joined by newlines
WithNested(text, nested) ==
    IF Len(nested) > 0 THEN text \o <<"NL">> \o JoinLines(nested) ELSE text

\* loadTasksManually, for line i (one-based) of one file
ManualTaskAt(path, lines, i, hst, td) ==
    LET m == MatchTask(lines[i])
    IN  IF ~m.full \/ ~HasCalendarMarker(m.text) THEN <<>>
        ELSE LET fullTaskText == WithNested(m.text, NestedLines(lines, i + 1, m.indent))
                 found == extractDateFromText(fullTaskText, hst.tzWest)
                 taskDate == IF found.valid THEN found
                             ELSE FileDate(path, hst.filenameFormat, td)
             IN  <<LoadedTask(fullTaskText, taskDate, path, i - 1, IsDone(m.marker))>>

RECURSIVE ManualFileTasks(_, _, _, _, _)
ManualFileTasks(path, lines, i, hst, td) ==
    IF i > Len(lines) THEN <<>>
    ELSE ManualTaskAt(path, lines, i, hst, td) \o ManualFileTasks(path, lines, i + 1, hst, td)

\* loadTasksManually over the files of the vault from the k-th on; a file whose
\* read fails (a path in unreadable) is skipped
RECURSIVE ManualFrom(_, _, _, _, _, _)
ManualFrom(files, k, ns, hst, td, unreadable) ==
    IF k > Len(files) THEN <<>>
    ELSE LET path == files[k]
             here == IF ~InScanScope(path, hst) \/ path \in unreadable THEN <<>>
                     ELSE ManualFileTasks(path, ns[path], 1, hst, td)
         IN  here \o ManualFrom(files, k + 1, ns, hst, td, unreadable)

\* vault.getMarkdownFiles(): the files of the vault ns, in the vault's order
PathA == <<"f", "/", "2024-03", ".md">>
PathB == <<"g", "/", "b", ".md">>
\* a note in folder f2, next to folder f
PathC == <<"f", "2", "/", "b", ".md">>
VaultOrder == <<PathA, PathB, PathC>>

MarkdownFiles(ns) == SelectSeq(VaultOrder, LAMBDA path : path \in DOMAIN ns)

loadTasksManually(ns, hst, td, unreadable) ==
    ManualFrom(MarkdownFiles(ns), 1, ns, hst, td, unreadable)

\* loadTasksFromAPI, for one entry of the listing: the task it pushes, if any
ApiTaskOf(entry, ns, hst, td, unreadable) ==
    IF entry.path = <<>> \/ entry.path \notin DOMAIN ns \/ ~InScanScope(entry.path, hst)
    THEN <<>>
    ELSE LET \* the first date field that is set, whether it is a valid date or not
             field == IF entry.due # "" THEN entry.due
                      ELSE IF entry.start # "" THEN entry.start
                      ELSE entry.scheduled
             explicit == IF field \in IsoTokens
                         THEN NewDate(field, hst.tzWest) ELSE NoDate
             inText == IF explicit.valid THEN explicit
                       ELSE extractDateFromText(entry.description, hst.tzWest)
             taskDate == IF inText.valid THEN inText
                         ELSE FileDate(entry.path, hst.filenameFormat, td)
             lines == ns[entry.path]
             readable == entry.path \notin unreadable
             onLine == readable /\ entry.line < Len(lines)
             m == IF onLine THEN MatchTask(lines[entry.line + 1]) ELSE MatchTask(<<>>)
             nested == IF m.prefix THEN NestedLines(lines, entry.line + 2, m.indent)
                       ELSE <<>>
             taskText == IF Len(nested) > 0 /\ m.full
                         THEN m.text \o <<"NL">> \o JoinLines(nested)
                         ELSE entry.description
             isCompleted == entry.status \notin {" ", "", "todo"}
         IN  IF ~HasCalendarMarker(taskText) THEN <<>>
             ELSE <<LoadedTask(taskText, taskDate, entry.path, entry.line, isCompleted)>>

\* the loop over the listing from the k-th entry on; an entry that makes the loop
\* throw ends it, and the catch block runs loadTasksManually after what was pushed
RECURSIVE ApiFrom(_, _, _, _, _, _)
ApiFrom(listing, k, ns, hst, td, unreadable) ==
    IF k > Len(listing) THEN <<>>
    ELSE IF listing[k].throws THEN loadTasksManually(ns, hst, td, unreadable)
    ELSE ApiTaskOf(listing[k], ns, hst, td, unreadable)
            \o ApiFrom(listing, k + 1, ns, hst, td, unreadable)

loadTasksFromAPI(tasksApi, ns, hst, td, unreadable) ==
    IF tasksApi.listing = "none"
    THEN loadTasksManually(ns, hst, td, unreadable)
    ELSE ApiFrom(tasksApi.tasks, 1, ns, hst, td, unreadable)

\* the key of the deduplication
TaskKey(task) == <<task.path, task.line>>

\* variant: the last entry of a key survives
RECURSIVE DedupKeepLast(_)
DedupKeepLast(raw) ==
    IF raw = <<>> THEN <<>>
    ELSE LET rest == Tail(raw)
         IN  IF \E k \in 1..Len(rest) : TaskKey(rest[k]) = TaskKey(Head(raw))
             THEN DedupKeepLast(rest)
             ELSE <<Head(raw)>> \o DedupKeepLast(rest)

\* the Map of loadTasks: the first entry of each key, in order of first insertion
RECURSIVE DedupFrom(_, _, _)
DedupFrom(raw, k, seen) ==
    IF k > Len(raw) THEN <<>>
    ELSE IF TaskKey(raw[k]) \in seen THEN DedupFrom(raw, k + 1, seen)
    ELSE <<raw[k]>> \o DedupFrom(raw, k + 1, seen \cup {TaskKey(raw[k])})

Dedup(raw) == DedupFrom(raw, 1, {})

\* the raw list: what the strategy pushed into this.tasks
RawTasks(tasksApi, ns, hst, td, unreadable) ==
    IF tasksApi.present
    THEN loadTasksFromAPI(tasksApi, ns, hst, td, unreadable)
    ELSE loadTasksManually(ns, hst, td, unreadable)

\* loadTasks: the strategy, the filter on the calendar emoji, the deduplication
loadTasksResult(raw) ==
    LET marked(task) == HasCalendarMarker(task.text)
    IN  Dedup(SelectSeq(raw, marked))

(***************************************************************************)
(* The vault, the index service and the settings the view is opened on.    *)
(***************************************************************************)
MaxLines == 2
MaxApiTasks == 2

LineDated == <<"-", " ", "[", " ", "]", " ", "a", " ", CAL, " ", "2024-01-30">>
LinePlain == <<"-", " ", "[", "x", "]", " ", "b">>
LineNested == <<" ", " ", CAL>>
LineUndated == <<"*", " ", "[", "X", "]", " ", "c", " ", CAL>>
LineOther == <<"-", " ", "[", " ", "]", " ", "d", " ", CAL>>

CandLines == {LineDated, LinePlain, LineNested, LineUndated}
\* a note is its lines as split('\n') gives them: an empty note is one empty line
NoteContents ==
    {<< <<>> >>} \cup (UNION { SeqsUpTo(CandLines, n) : n \in 1..MaxLines } \ {<<>>})

\* entries of the index service's listing; the one that throws is an entry the
\* loop cannot read a path from
ApiEntry(path, line, description, status, due) ==
    [path |-> path, line |-> line, description |-> description, status |-> status,
     due |-> due, start |-> "", scheduled |-> "", throws |-> FALSE]
BadEntry == [path |-> <<>>, line |-> 0, description |-> <<>>, status |-> "",
             due |-> "", start |-> "", scheduled |-> "", throws |-> TRUE]
ApiEntries ==
    { ApiEntry(PathA, 0, <<"a", " ", CAL>>, " ", ""),
      ApiEntry(PathA, 0, <<"z">>, "x", "2024-01-30"),
      ApiEntry(PathB, 0, <<"d", " ", CAL, " ", "2024-02-31">>, "done", ""),
      BadEntry }

ApiChoices ==
    {NoApi, [present |-> TRUE, listing |-> "none", tasks |-> <<>>]}
    \cup { [present |-> TRUE, listing |-> "getTasks", tasks |-> ts] :
             ts \in UNION { SeqsUpTo(ApiEntries, n) : n \in 0..MaxApiTasks } }

HostChoices ==
    { [HostDefault EXCEPT !.calendarFolderPath = folder, !.tzWest = west] :
        folder \in {<<>>, <<"f">>}, west \in BOOLEAN }

\* files whose read fails during one load
ReadFailures == {{}, {PathA}}

\* an index service that lists every checklist line of the vault with its path,
\* its zero-based line number, its text and its status symbol
RECURSIVE IndexOfFile(_, _, _)
IndexOfFile(path, lines, i) ==
    IF i > Len(lines) THEN <<>>
    ELSE LET m == MatchTask(lines[i])
             here == IF m.full THEN <<ApiEntry(path, i - 1, m.text, m.marker, "")>>
                     ELSE <<>>
         IN  here \o IndexOfFile(path, lines, i + 1)

RECURSIVE IndexFrom(_, _, _)
IndexFrom(files, k, ns) ==
    IF k > Len(files) THEN <<>>
    ELSE IndexOfFile(files[k], ns[files[k]], 1) \o IndexFrom(files, k + 1, ns)

IndexApi(ns) ==
    [present |-> TRUE, listing |-> "getTasks", tasks |-> IndexFrom(MarkdownFiles(ns), 1, ns)]

LoadRecord(raw, tasksApi, unreadable) ==
    [op |-> "load", dir |-> 0, from |-> 0, raw |-> raw,
     manualOnly |-> (~tasksApi.present \/ tasksApi.listing = "none"),
     unreadable |-> unreadable]

\* loadTasks followed by the rendering of the calendar
LoadAndRender(ns, tasksApi, unreadable) ==
    \E raw \in {RawTasks(tasksApi, ns, host, today, unreadable)} :
       \E loaded \in {loadTasksResult(raw)} :
          /\ tasks' = loaded
          /\ grid' = renderCalendar(loaded, today, showCompletedTasks, currentDate)
          /\ last' = LoadRecord(raw, tasksApi, unreadable)

\* onOpen: loadTasks, render, and the registration of the modify listener
OnOpen ==
    /\ last.op = "none"
    /\ \E unreadable \in ReadFailures : LoadAndRender(notes, api, unreadable)
    /\ UNCHANGED <<notes, api, host, running, popup, today, currentDate, showCompletedTasks, wheel,
                   swipe, pendingSwipes>>

\* a note is modified in the vault and the modify listener reloads and redraws;
\* an index service that lists the vault's checklist lines lists the new ones
NoteModified ==
    /\ last.op # "none"
    /\ \E content \in NoteContents, unreadable \in ReadFailures :
          \E ns \in {[notes EXCEPT ![PathA] = content]} :
             \E tasksApi \in {IF api = IndexApi(notes) THEN IndexApi(ns) ELSE api} :
                /\ content # notes[PathA]
                /\ notes' = ns
                /\ api' = tasksApi
                /\ LoadAndRender(ns, tasksApi, unreadable)
    /\ UNCHANGED <<host, running, popup, today, currentDate, showCompletedTasks, wheel, swipe,
                   pendingSwipes>>

InitLoad ==
    /\ notes \in { [path \in {PathA, PathB, PathC} |->
                      IF path = PathA THEN content ELSE <<LineOther>>] :
                   content \in NoteContents }
    /\ api \in ApiChoices \cup {IndexApi(notes)}
    /\ host \in HostChoices
    /\ popup = NoPopup
    /\ tasks = <<>>
    /\ today = MakeDay(MinYear, 2, 1)
    /\ currentDate = DateOfDay(today)
    /\ showCompletedTasks = TRUE
    /\ grid = NoGrid
    /\ wheel = WheelInit
    /\ swipe = SwipeIdle
    /\ pendingSwipes = <<>>
    /\ running = <<>>
    /\ last = NoLast

NextLoad == OnOpen \/ NoteModified

SpecLoad == InitLoad /\ [][NextLoad]_vars

C2_FirstOfEachKey ==
    last.op = "load" =>
        /\ \A i, j \in 1..Len(tasks) : TaskKey(tasks[i]) = TaskKey(tasks[j]) => i = j
        /\ \A k \in 1..Len(last.raw) :
              LET firstK == CHOOSE j \in 1..k :
                              /\ TaskKey(last.raw[j]) = TaskKey(last.raw[k])
                              /\ \A h \in 1..(j - 1) :
                                    TaskKey(last.raw[h]) # TaskKey(last.raw[k])
              IN  \E i \in 1..Len(tasks) : tasks[i] = last.raw[firstK]

C2_Witness ==
    /\ last.op = "load"
    /\ \E i, j \in 1..Len(last.raw) :
          /\ i < j
          /\ TaskKey(last.raw[i]) = TaskKey(last.raw[j])
          /\ last.raw[i] # last.raw[j]
          /\ \E k \in 1..Len(tasks) : tasks[k] = last.raw[i]

\* the (path, line) keys of a task list
Keys(ts) == { TaskKey(ts[i]) : i \in 1..Len(ts) }

\* the checklist lines in the scan scope whose own line carries the calendar emoji
MarkedLines(ns, hst) ==
    { key \in (DOMAIN ns) \X (0..(MaxLines - 1)) :
        /\ key[2] < Len(ns[key[1]])
        /\ InScanScope(key[1], hst)
        /\ MatchTask(ns[key[1]][key[2] + 1]).full
        /\ Includes(ns[key[1]][key[2] + 1], CAL) }

\* the index-backed pass was abandoned: no accessor of the index service was
\* recognised, or an entry of the listing made the loop throw
Abandoned(tasksApi) ==
    /\ tasksApi.present
    /\ \/ tasksApi.listing = "none"
       \/ \E k \in 1..Len(tasksApi.tasks) : tasksApi.tasks[k].throws

\* C20: when the index-backed pass is abandoned, because the shape of the index
\* service is not recognised or because the pass throws at some entry, the list
\* the load leaves is exactly the list the scan of the files alone gives.
C20_FullFallback ==
    (last.op = "load" /\ Abandoned(api)) =>
        tasks = loadTasksResult(loadTasksManually(notes, host, today, last.unreadable))

\* a note is in the folder or in one of its subfolders when its path goes on
\* with a slash after the folder's path
InFolder(path, folder) ==
    LET normalizedFolderPath == TrimSlashes(folder)
    IN  StartsWith(TrimSlashes(path), normalizedFolderPath \o <<"/">>)

\* C19: when the calendar folder is set, every task of the list a load leaves
\* comes from a note in that folder or in one of its subfolders, whether the
\* index service or the scan of the files loaded it.
C19_OnlyFromFolder ==
    (last.op = "load" /\ host.calendarFolderPath # <<>>) =>
        \A i \in 1..Len(tasks) : InFolder(tasks[i].path, host.calendarFolderPath)

\* C14: when the index service lists every checklist line of the vault with its
\* path and line number and every file can be read, the list loaded through the
\* index service has a task for every checklist line in the scan scope whose own
\* line carries the calendar emoji, and it has the same (path, line) keys as the
\* list the scan of the files loads from the same vault.
C14_StrategiesAgree ==
    (last.op = "load" /\ api = IndexApi(notes) /\ last.unreadable = {}) =>
        /\ MarkedLines(notes, host) \subseteq Keys(tasks)
        /\ Keys(tasks) =
              Keys(loadTasksResult(loadTasksManually(notes, host, today, {})))

(***************************************************************************)
(* Completion toggle: toggleTaskCompletion and its chain of strategies.    *)
(* Each operator gives the outcome of the call on task with the vault ns:  *)
(* the returned boolean ok, the vault and task.isCompleted at the return,  *)
(* and the strategy that ended the call.  fx holds what the surroundings   *)
(* do during the call: the line executeToggleTaskDoneCommand returns,      *)
(* whether an operation of the index service or a command has changed the  *)
(* note by the end of the 100 ms wait, and whether vault.modify throws.    *)
(***************************************************************************)
Outcome(ok, ns, isCompleted, strategy) ==
    [ok |-> ok, notes |-> ns, isCompleted |-> isCompleted, strategy |-> strategy,
     ran |-> << [strategy |-> strategy, ok |-> ok, notes |-> ns] >>]

\* the outcome of a call that went on to the outcome out after the given strategy:
\* when the strategy ran and threw, with the vault as ns, it is the first that ran
After(threw, strategy, ns, out) ==
    IF threw
    THEN [out EXCEPT !.ran = << [strategy |-> strategy, ok |-> FALSE, notes |-> ns] >> \o @]
    ELSE out

\* lines[task.line] = newLine and vault.modify(file, lines.join('\n'))
WriteLine(ns, path, line, newLine) ==
    [ns EXCEPT ![path] = SplitLines(JoinLines([ns[path] EXCEPT ![line + 1] = newLine]))]

\* the line with another marker in its brackets
WithMarker(s, marker) ==
    LET m == MatchTask(s)
    IN  IF m.prefix THEN [s EXCEPT ![m.bullet + m.gap + 2] = marker] ELSE s

\* what a toggle of the index service does to a line when it acts on the note
ExternalToggleLine(s) ==
    WithMarker(s, IF IsDone(MatchTask(s).marker) THEN " " ELSE "x")

\* the line after an operation of the given kind: a toggle, or a setting of the
\* completion to done or to not done
ExternalLine(kind, s) ==
    IF kind = "toggle" THEN ExternalToggleLine(s)
    ELSE IF kind = "incomplete" THEN WithMarker(s, " ")
    ELSE WithMarker(s, "x")

\* the note after an operation of the index service or a command on the task's
\* line: unchanged when the operation has not acted by the end of the wait
ExternalEffect(task, ns, fx, kind) ==
    IF fx.effect /\ task.line < Len(ns[task.path])
    THEN WriteLine(ns, task.path, task.line,
                   ExternalLine(kind, ns[task.path][task.line + 1]))
    ELSE ns

\* variant: the pattern is not required of the line
toggleTaskCompletionDirectAnyLine(task, ns, fx) ==
    LET lines == ns[task.path]
    IN  IF task.line >= Len(lines) THEN Outcome(FALSE, ns, task.isCompleted, "direct")
        ELSE LET line == lines[task.line + 1]
                 m == MatchTask(line)
                 newStatus == IF IsDone(m.marker) THEN " " ELSE "x"
                 newLine == SubSeq(line, 1, m.bullet)
                               \o <<" ", "[", newStatus, "]", " ">> \o m.text
             IN  IF fx.writeFails THEN Outcome(FALSE, ns, task.isCompleted, "direct")
                 ELSE Outcome(m.full, WriteLine(ns, task.path, task.line, newLine),
                              newStatus # " ", "direct")

toggleTaskCompletionDirect(task, ns, fx) ==
    LET lines == ns[task.path]
    IN  IF task.line >= Len(lines) THEN Outcome(FALSE, ns, task.isCompleted, "direct")
        ELSE LET line == lines[task.line + 1]
                 m == MatchTask(line)
                 newStatus == IF IsDone(m.marker) THEN " " ELSE "x"
                 newLine == SubSeq(line, 1, m.bullet)
                               \o <<" ", "[", newStatus, "]", " ">> \o m.text
             IN  IF ~m.full \/ fx.writeFails
                 THEN Outcome(FALSE, ns, task.isCompleted, "direct")
                 ELSE Outcome(TRUE, WriteLine(ns, task.path, task.line, newLine),
                              newStatus # " ", "direct")

\* the command ids of toggleTaskViaCommand, in its order
CommandIds ==
    <<"tasks:toggle-task", "tasks:toggle-done", "tasks:mark-task-complete",
      "tasks:mark-task-incomplete", "tasks-plugin:toggle-task",
      "tasks-plugin:toggle-done", "tasks-plugin:mark-task-complete",
      "tasks-plugin:mark-task-incomplete">>
HasToggle(id) ==
    id \in {"tasks:toggle-task", "tasks:toggle-done", "tasks-plugin:toggle-task",
            "tasks-plugin:toggle-done"}
HasIncomplete(id) ==
    id \in {"tasks:mark-task-incomplete", "tasks-plugin:mark-task-incomplete"}
\* 'incomplete' includes 'complete'
HasComplete(id) ==
    HasIncomplete(id)
    \/ id \in {"tasks:mark-task-complete", "tasks-plugin:mark-task-complete"}

CommandKind(id) ==
    IF HasToggle(id) THEN "toggle"
    ELSE IF HasIncomplete(id) THEN "incomplete"
    ELSE "complete"

\* targetCommands: the command ids kept for a task with the given isCompleted
TargetCommands(isCompleted) ==
    LET wanted(id) == IF isCompleted THEN HasIncomplete(id) \/ HasToggle(id)
                      ELSE HasComplete(id) \/ HasToggle(id)
    IN  SelectSeq(CommandIds, wanted)

\* the positions in targetCommands of the commands that do not throw; without
\* app.command every command throws
CommandRuns(targetCommands, hst) ==
    { k \in 1..Len(targetCommands) :
        hst.command /\ targetCommands[k] \in hst.commandIds }

\* the command ids the loop executes: up to the first that does not throw
TriedCommands(isCompleted, hst) ==
    LET targetCommands == TargetCommands(isCompleted)
        runs == CommandRuns(targetCommands, hst)
    IN  IF runs = {} THEN targetCommands
        ELSE SubSeq(targetCommands, 1, CHOOSE k \in runs : \A h \in runs : k <= h)

\* toggleTaskViaCommand: the first command that does not throw, else the direct
\* edit
toggleTaskViaCommand(task, ns, hst, fx) ==
    LET tried == TriedCommands(task.isCompleted, hst)
    IN  IF CommandRuns(TargetCommands(task.isCompleted), hst) = {}
        THEN After(TRUE, "command", ns, toggleTaskCompletionDirect(task, ns, fx))
        ELSE Outcome(TRUE, ExternalEffect(task, ns, fx, CommandKind(tried[Len(tried)])),
                     ~task.isCompleted, "command")

\* allTasks.find by path and line: 0 when no entry matches, -1 when the search
\* throws on an entry it cannot read before it reaches a match
RECURSIVE FindApiTask(_, _, _, _)
FindApiTask(listing, k, path, line) ==
    IF k > Len(listing) THEN 0
    ELSE IF listing[k].throws THEN -1
    ELSE IF listing[k].path = path /\ listing[k].line = line THEN k
    ELSE FindApiTask(listing, k + 1, path, line)

\* the listing as the toggle reads it: empty when no accessor is recognised
ListingOf(tasksApi) == IF tasksApi.listing = "none" THEN <<>> ELSE tasksApi.tasks

\* methods 4 to 7: toggle, toggleDone and setCompletionStatus of the entry found,
\* each tried when it is a function and left when it throws, then the commands
TaskLevelMethods(task, ns, tasksApi, hst, fx) ==
    LET methods == tasksApi.taskMethods
    IN  IF methods.toggle = "ok"
        THEN Outcome(TRUE, ExternalEffect(task, ns, fx, "toggle"),
                     ~task.isCompleted, "toggle")
        ELSE After(methods.toggle = "throws", "toggle", ns,
        IF methods.toggleDone = "ok"
        THEN Outcome(TRUE, ExternalEffect(task, ns, fx, "toggle"),
                     ~task.isCompleted, "toggleDone")
        ELSE After(methods.toggleDone = "throws", "toggleDone", ns,
        IF methods.setCompletionStatus = "ok"
        THEN Outcome(TRUE,
                     ExternalEffect(task, ns, fx,
                                    IF task.isCompleted THEN "incomplete" ELSE "complete"),
                     ~task.isCompleted, "setCompletionStatus")
        ELSE After(methods.setCompletionStatus = "throws", "setCompletionStatus", ns,
                   toggleTaskViaCommand(task, ns, hst, fx))))

\* method 3: the entry of the task in the listing; the direct edit when the
\* search throws, the commands when there is no accessor or no entry
FromMethod3(task, ns, tasksApi, hst, fx) ==
    LET found == FindApiTask(ListingOf(tasksApi), 1, task.path, task.line)
    IN  IF tasksApi.listing = "none" THEN toggleTaskViaCommand(task, ns, hst, fx)
        ELSE IF found = -1 THEN toggleTaskCompletionDirect(task, ns, fx)
        ELSE IF found = 0 THEN toggleTaskViaCommand(task, ns, hst, fx)
        ELSE TaskLevelMethods(task, ns, tasksApi, hst, fx)

\* method 2: toggleTask of the index service on the entry found, the wait, and
\* the flip of task.isCompleted
FromMethod2(task, ns, tasksApi, hst, fx) ==
    LET found == FindApiTask(ListingOf(tasksApi), 1, task.path, task.line)
    IN  IF tasksApi.toggleTask = "ok" /\ found > 0
        THEN Outcome(TRUE, ExternalEffect(task, ns, fx, "toggle"),
                     ~task.isCompleted, "toggleTask")
        ELSE After(tasksApi.toggleTask = "throws" /\ found > 0, "toggleTask", ns,
                   FromMethod3(task, ns, tasksApi, hst, fx))

\* the line executeToggleTaskDoneCommand returns for taskLine
ExecReturns == {"toggled", "same", "other"}
ExecLine(taskLine, fx) ==
    IF fx.execReturn = "toggled" THEN ExternalToggleLine(taskLine)
    ELSE IF fx.execReturn = "same" THEN taskLine
    ELSE <<"n">>

\* variant: the call goes on to the next strategy after the write of the first
toggleTaskCompletionGoesOn(task, ns, tasksApi, hst, fx) ==
    IF ~tasksApi.present THEN toggleTaskCompletionDirect(task, ns, fx)
    ELSE IF tasksApi.exec = "none" THEN FromMethod2(task, ns, tasksApi, hst, fx)
    ELSE IF task.line >= Len(ns[task.path]) THEN toggleTaskCompletionDirect(task, ns, fx)
    ELSE IF tasksApi.exec = "throws" \/ fx.writeFails
         THEN After(TRUE, "executeToggleTaskDoneCommand", ns,
                    FromMethod2(task, ns, tasksApi, hst, fx))
    ELSE LET written == WriteLine(ns, task.path, task.line,
                                  ExecLine(ns[task.path][task.line + 1], fx))
             out == FromMethod2(task, written, tasksApi, hst, fx)
         IN  [out EXCEPT !.ran = << [strategy |-> "executeToggleTaskDoneCommand",
                                     ok |-> FALSE, notes |-> written] >> \o @]

toggleTaskCompletion(task, ns, tasksApi, hst, fx) ==
    IF ~tasksApi.present THEN toggleTaskCompletionDirect(task, ns, fx)
    ELSE IF tasksApi.exec = "none" THEN FromMethod2(task, ns, tasksApi, hst, fx)
    ELSE IF task.line >= Len(ns[task.path]) THEN toggleTaskCompletionDirect(task, ns, fx)
    ELSE IF tasksApi.exec = "throws" \/ fx.writeFails
         THEN After(TRUE, "executeToggleTaskDoneCommand", ns,
                    FromMethod2(task, ns, tasksApi, hst, fx))
    ELSE LET newTaskLine == ExecLine(ns[task.path][task.line + 1], fx)
             m == MatchTask(newTaskLine)
         IN  Outcome(TRUE, WriteLine(ns, task.path, task.line, newTaskLine),
                     IF m.prefix THEN IsDone(m.marker) ELSE ~task.isCompleted,
                     "executeToggleTaskDoneCommand")

(***************************************************************************)
(* The popup's checkbox on a vault with one task in note A (line 0) and    *)
(* one in note B, under the shapes an index service can have.              *)
(***************************************************************************)
ToggleLine(marker) == <<"-", " ", "[", marker, "]", " ", "a", " ", CAL>>
LineWide == <<"-", " ", " ", "[", "x", "]", " ", " ", "a", " ", CAL>>
ToggleContents ==
    { <<ToggleLine(marker)>> : marker \in Markers } \cup {<<LineWide>>, << <<"n">> >>}

\* an operation of the index service is "none" (not a function), "ok" or "throws"
TaskMethods(toggle, toggleDone, setCompletionStatus) ==
    [toggle |-> toggle, toggleDone |-> toggleDone,
     setCompletionStatus |-> setCompletionStatus]
NoTaskMethods == TaskMethods("none", "none", "none")

ToggleApi(ts, exec, toggleTask, methods) ==
    [present |-> TRUE, listing |-> IF ts = <<>> THEN "none" ELSE "getTasks",
     tasks |-> ts, exec |-> exec, toggleTask |-> toggleTask, taskMethods |-> methods]

EntryOpen == ApiEntry(PathA, 0, <<"a", " ", CAL>>, " ", "")
EntryDone == ApiEntry(PathA, 0, <<"a", " ", CAL>>, "x", "")
EntryBeyond == ApiEntry(PathA, 1, <<"a", " ", CAL>>, " ", "")

ToggleApiChoices ==
    { NoApi,
      ToggleApi(<<>>, "ok", "none", NoTaskMethods),
      ToggleApi(<<>>, "none", "none", NoTaskMethods),
      ToggleApi(<<EntryOpen>>, "throws", "ok", NoTaskMethods),
      ToggleApi(<<EntryDone>>, "none", "ok", NoTaskMethods),
      ToggleApi(<<EntryOpen>>, "none", "throws", TaskMethods("ok", "none", "none")),
      ToggleApi(<<EntryOpen>>, "none", "none", TaskMethods("throws", "ok", "none")),
      ToggleApi(<<EntryDone>>, "none", "none", TaskMethods("none", "throws", "ok")),
      ToggleApi(<<EntryOpen>>, "none", "none", TaskMethods("throws", "throws", "throws")),
      ToggleApi(<<EntryBeyond>>, "ok", "ok", NoTaskMethods),
      ToggleApi(<<BadEntry, EntryOpen>>, "none", "ok", NoTaskMethods) }

\* the host with and without app.command, and the commands it then runs
ToggleHostChoices ==
    { HostDefault,
      [HostDefault EXCEPT !.command = TRUE],
      [HostDefault EXCEPT !.command = TRUE,
                          !.commandIds = {"tasks:mark-task-incomplete"}],
      [HostDefault EXCEPT !.command = TRUE,
                          !.commandIds = {"tasks:toggle-done"}] }

Surroundings ==
    [execReturn : ExecReturns, effect : BOOLEAN, writeFails : BOOLEAN]

\* the record of a call: its task's key, text and line before, the strategies that
\* ran in it with what each returned and whether it changed the vault, isCompleted before and
\* at the return, the returned boolean, and the same of the call before it when
\* that was the step before
ToggleRecord(task, out) ==
    LET lines == notes[task.path]
        markerBefore == IF task.line < Len(lines)
                        THEN MatchTask(lines[task.line + 1]).marker ELSE ""
        chained == last.op = "toggle"
    IN  [op |-> "toggle", key |-> TaskKey(task), text |-> task.text, ok |-> out.ok,
         strategy |-> out.strategy,
         ran |-> [k \in 1..Len(out.ran) |->
                    [strategy |-> out.ran[k].strategy, ok |-> out.ran[k].ok,
                     wrote |-> out.ran[k].notes #
                                 (IF k = 1 THEN notes ELSE out.ran[k - 1].notes)]],
         pre |-> task.isCompleted, post |-> out.isCompleted,
         noteBefore |-> lines, markerBefore |-> markerBefore,
         prevOk |-> chained /\ last.ok,
         prevKey |-> IF chained THEN last.key ELSE <<>>,
         prevPre |-> chained /\ last.pre,
         prevMarker |-> IF chained THEN last.markerBefore ELSE ""]

\* the change handler of a checkbox of the popup: toggleTaskCompletion on the
\* task, and on success loadTasks and render
CheckboxChange ==
    /\ \E i \in 1..Len(tasks) :
          \E out \in { toggleTaskCompletion(tasks[i], notes, api, host, fx) :
                          fx \in Surroundings } :
             /\ notes' = out.notes
             /\ last' = ToggleRecord(tasks[i], out)
             /\ IF out.ok
                THEN \E loaded \in {loadTasksResult(
                                      RawTasks(api, out.notes, host, today, {}))} :
                        /\ tasks' = loaded
                        /\ grid' = renderCalendar(loaded, today, showCompletedTasks,
                                                  currentDate)
                        \* the popup the checkbox is in asks the view for the
                        \* tasks of its date
                        /\ popup' = IF popup.open
                                    THEN [popup EXCEPT !.tasks =
                                            SortIncompleteFirst(
                                               getTasksForDate(loaded, today, popup.date))]
                                    ELSE popup
                ELSE /\ tasks' = [tasks EXCEPT ![i].isCompleted = out.isCompleted]
                     /\ grid' = grid
                     /\ popup' = popup
             \* render() makes the closures of the wheel and swipe handlers anew
             /\ wheel' = IF out.ok THEN [WheelInit EXCEPT !.sinceChange = wheel.sinceChange]
                         ELSE wheel
             /\ swipe' = IF out.ok THEN SwipeIdle ELSE swipe
    /\ UNCHANGED <<api, host, running, today, currentDate, showCompletedTasks, pendingSwipes>>

\* note A is edited outside the view; the modify listener has not run yet
NoteEdited ==
    /\ \E content \in ToggleContents :
          /\ content # notes[PathA]
          /\ notes' = [notes EXCEPT ![PathA] = content]
    /\ last' = [op |-> "edit"]
    /\ UNCHANGED <<api, host, running, popup, tasks, today, currentDate, showCompletedTasks, grid,
                   wheel, swipe, pendingSwipes>>

\* the modify listener: loadTasks and renderCalendar
ModifyListener ==
    /\ last.op \in {"edit", "toggle"}
    /\ LoadAndRender(notes, api, {})
    /\ UNCHANGED <<notes, api, host, running, popup, today, currentDate, showCompletedTasks, wheel,
                   swipe, pendingSwipes>>

InitToggle ==
    /\ notes \in { [path \in {PathA, PathB} |->
                      IF path = PathA THEN content ELSE <<LineOther>>] :
                   content \in ToggleContents }
    /\ api \in ToggleApiChoices
    /\ host \in ToggleHostChoices
    /\ popup = NoPopup
    /\ today = MakeDay(MinYear, 2, 1)
    /\ tasks = loadTasksResult(RawTasks(api, notes, host, today, {}))
    /\ currentDate = DateOfDay(today)
    /\ showCompletedTasks = TRUE
    /\ grid = renderCalendar(tasks, today, showCompletedTasks, currentDate)
    /\ wheel = WheelInit
    /\ swipe = SwipeIdle
    /\ pendingSwipes = <<>>
    /\ running = <<>>
    /\ last = NoLast

NextToggle == CheckboxChange \/ NoteEdited \/ ModifyListener

SpecToggle == InitToggle /\ [][NextToggle]_vars

\* the marker now on the line of the last call's task, "" when there is none
MarkerNow ==
    LET lines == notes[last.key[1]]
    IN  IF last.key[2] < Len(lines) THEN MatchTask(lines[last.key[2] + 1]).marker ELSE ""

\* C5: two calls in a row on the same task that both return true bring the
\* task's isCompleted back to its value before the first and the marker of its
\* line back to the character it was before the first, whatever that marker
\* was.
C5_TwiceRestores ==
    (/\ last.op = "toggle" /\ last.ok /\ last.prevOk
     /\ last.prevKey = last.key /\ last.prevMarker \in Markers)
    => /\ last.post = last.prevPre
       /\ MarkerNow = last.prevMarker

\* C6: when the call returns true, the task's isCompleted is the negation of its
\* value before the call and is the completion the marker now on the task's line
\* gives.
C6_SuccessFlipsAndAgrees ==
    (last.op = "toggle" /\ last.ok)
    => /\ last.post = ~last.pre
       /\ MarkerNow \in Markers
       /\ last.post = IsDone(MarkerNow)

\* C7: when the call returns false, the task's note has the content it had
\* before the call and the task's isCompleted the value it had.
C7_FailureChangesNothing ==
    (last.op = "toggle" /\ ~last.ok)
    => /\ notes[last.key[1]] = last.noteBefore
       /\ last.post = last.pre
       /\ \E i \in 1..Len(tasks) :
             TaskKey(tasks[i]) = last.key /\ tasks[i].isCompleted = last.pre

C7_Witness ==
    /\ last.op = "toggle" /\ ~last.ok
    /\ api.present
    /\ last.key[2] < Len(notes[last.key[1]])
    /\ ~MatchTask(notes[last.key[1]][last.key[2] + 1]).full

\* C39: when the direct edit returns true, the note has as many lines as before,
\* every line but the task's is as it was, and the task's line differs from what
\* it was in the character between the brackets only.
C39_DirectFrame ==
    (last.op = "toggle" /\ last.ok /\ last.strategy = "direct") =>
        LET before == last.noteBefore
            after == notes[last.key[1]]
            k == last.key[2] + 1
            m == MatchTask(before[k])
        IN  /\ Len(after) = Len(before)
            /\ \A j \in 1..Len(before) : j # k => after[j] = before[j]
            /\ Len(after[k]) = Len(before[k])
            /\ \A c \in 1..Len(before[k]) :
                  c # m.bullet + m.gap + 2 => after[k][c] = before[k][c]

\* C32: when the call ends in the command strategy, the commands it has executed
\* are, for a completed task, mark-incomplete and toggle commands only and, for an
\* incomplete task, mark-complete and toggle commands only; the last of them is
\* the first that does not throw.
C32_CommandsFiltered ==
    (last.op = "toggle" /\ last.strategy = "command") =>
        LET tried == TriedCommands(last.pre, host)
            markIncomplete(id) == id \in {"tasks:mark-task-incomplete",
                                          "tasks-plugin:mark-task-incomplete"}
            markComplete(id) == id \in {"tasks:mark-task-complete",
                                        "tasks-plugin:mark-task-complete"}
        IN  /\ \A k \in 1..Len(tried) :
                  IF last.pre THEN markIncomplete(tried[k]) \/ HasToggle(tried[k])
                  ELSE markComplete(tried[k]) \/ HasToggle(tried[k])
            /\ tried[Len(tried)] \in host.commandIds
            /\ \A k \in 1..(Len(tried) - 1) : tried[k] \notin host.commandIds

\* the strategies of toggleTaskCompletion in the order of the code
StrategyOrder ==
    <<"executeToggleTaskDoneCommand", "toggleTask", "toggle", "toggleDone",
      "setCompletionStatus", "command", "direct">>
StrategyPosition(strategy) ==
    CHOOSE k \in 1..Len(StrategyOrder) : StrategyOrder[k] = strategy

\* C33: the strategies that ran in a call ran in the fixed order, none returned
\* true but possibly the last, whose result is the call's, at most one of them
\* changed the vault, and without the index service the direct edit is the only
\* one that ran.
C33_OrderedChain ==
    last.op = "toggle" =>
        LET ran == last.ran
        IN  /\ \A k \in 1..(Len(ran) - 1) :
                  /\ StrategyPosition(ran[k].strategy) < StrategyPosition(ran[k + 1].strategy)
                  /\ ~ran[k].ok
            /\ ran[Len(ran)].ok = last.ok
            /\ ran[Len(ran)].strategy = last.strategy
            /\ Cardinality({ k \in 1..Len(ran) : ran[k].wrote }) <= 1
            /\ ~api.present => Len(ran) = 1 /\ ran[1].strategy = "direct"

\* every task-level method and every command has thrown, and the direct edit wrote
C33_Witness ==
    /\ last.op = "toggle" /\ last.ok
    /\ Len(last.ran) = 5
    /\ last.ran[1].strategy = "toggle" /\ last.ran[4].strategy = "command"
    /\ last.ran[5].strategy = "direct" /\ last.ran[5].wrote

(***************************************************************************)
(* Touch gestures on the grid: handleTouchStart, handleTouchMove,          *)
(* handleTouchEnd and handleTouchCancel with the common functions they     *)
(* call.  Positions are client coordinates, durations milliseconds.        *)
(***************************************************************************)
StartXs == {0, 100}
StartY == 200
OffsetsX == {-31, -25, -21, -16, -12, 0, 8, 12, 15, 16, 20, 21, 25, 30, 31}
OffsetsY == {0, 14, 20, 100}
Durations == {20, 100, 150, 200, 600}
TouchTargets == {"cell", "fab"}

\* shouldIgnoreTarget: the floating button and the navigation buttons
shouldIgnoreTarget(target) == target \in {"fab", "nav-btn"}

resetSwipe(sw) ==
    [sw EXCEPT !.swipeStartX = 0, !.swipeStartY = 0, !.isSwiping = FALSE,
               !.touchIdentifier = -1]

\* variant: no limit on the duration
SwipeShouldCommitAnyDuration(absDeltaX, absDeltaY, deltaTime) ==
    (absDeltaX > 20 \/ absDeltaX * 100 > 15 * deltaTime) /\ absDeltaY < 100

\* the test of handleSwipeEndCommon; velocity > 0.15 is absDeltaX / deltaTime >
\* 15 / 100
SwipeShouldCommit(absDeltaX, absDeltaY, deltaTime) ==
    /\ absDeltaX > 20 \/ absDeltaX * 100 > 15 * deltaTime
    /\ deltaTime < 600
    /\ absDeltaY < 100

\* variant: any release over 5px from the start is a swipe
IsSwipeNotTapLoose(deltaX, deltaY, isSwiping) == deltaX > 5

\* the test of handleTouchEnd that tells a swipe from a tap
IsSwipeNotTap(deltaX, deltaY, isSwiping) ==
    deltaX > 30 \/ (deltaX > 15 /\ deltaX > deltaY /\ isSwiping)

\* handleSwipeMoveCommon: whether it turns isSwiping on
handleSwipeMoveCommon(sw, clientX, clientY) ==
    LET absDeltaX == Abs(clientX - sw.swipeStartX)
        absDeltaY == Abs(clientY - sw.swipeStartY)
    IN  /\ sw.swipeStartX # 0
        /\ absDeltaX > 5 \/ sw.isSwiping
        /\ absDeltaX > absDeltaY \/ sw.isSwiping

TouchRecord(op) == [op |-> op, dir |-> 0, from |-> MonthIndex(currentDate)]

\* handleTouchStart with handleSwipeStartCommon
TouchStart ==
    /\ swipe.target = "none"
    /\ \E clientX \in StartXs, target \in TouchTargets :
          swipe' = IF shouldIgnoreTarget(target)
                   THEN [swipe EXCEPT !.target = target, !.horizontalSeen = FALSE]
                   ELSE [swipe EXCEPT !.swipeStartX = clientX, !.swipeStartY = StartY,
                                      !.isSwiping = FALSE, !.touchIdentifier = 0,
                                      !.target = target, !.horizontalSeen = FALSE]
    /\ last' = TouchRecord("touchstart")
    /\ UNCHANGED <<notes, api, host, running, popup, tasks, today, currentDate, showCompletedTasks,
                   grid, wheel, pendingSwipes>>

\* handleTouchMove
TouchMove ==
    /\ swipe.target # "none"
    /\ \E offsetX \in OffsetsX, offsetY \in OffsetsY :
          LET clientX == swipe.swipeStartX + offsetX
              clientY == swipe.swipeStartY + offsetY
              deltaX == Abs(offsetX)
              deltaY == Abs(offsetY)
              handled == /\ swipe.touchIdentifier # -1 /\ swipe.swipeStartX # 0
                         /\ swipe.target # "fab"
                         /\ deltaX > 10 /\ deltaX > deltaY
          IN  /\ clientX >= 0
              /\ swipe' = [swipe EXCEPT
                             !.isSwiping =
                                 IF handled /\ handleSwipeMoveCommon(swipe, clientX, clientY)
                                 THEN TRUE ELSE @,
                             !.horizontalSeen = @ \/ (deltaX > 10 /\ deltaX > deltaY)]
    /\ last' = TouchRecord("touchmove")
    /\ UNCHANGED <<notes, api, host, running, popup, tasks, today, currentDate, showCompletedTasks,
                   grid, wheel, pendingSwipes>>

\* handleTouchEnd with handleSwipeEndCommon; a release that commits calls
\* handleSwipe, which changes the month after its delay
TouchEnd ==
    /\ swipe.target # "none"
    /\ \E offsetX \in OffsetsX, offsetY \in OffsetsY, deltaTime \in Durations :
          LET deltaX == Abs(offsetX)
              deltaY == Abs(offsetY)
              asSwipe == /\ swipe.target # "fab"
                         /\ swipe.touchIdentifier # -1 /\ swipe.swipeStartX # 0
                         /\ IsSwipeNotTap(deltaX, deltaY, swipe.isSwiping)
              commits == /\ asSwipe
                         /\ swipe.isSwiping
                         /\ SwipeShouldCommit(deltaX, deltaY, deltaTime)
              direction == IF offsetX < 0 THEN 1 ELSE -1
          IN  /\ swipe.swipeStartX + offsetX >= 0
              /\ IF commits
                 THEN /\ handleSwipeBegin(direction)
                      /\ swipe' = [swipe EXCEPT !.swipeStartX = 0, !.isSwiping = FALSE,
                                                !.touchIdentifier = -1,
                                                !.target = "none",
                                                !.horizontalSeen = FALSE]
                 ELSE /\ pendingSwipes' = pendingSwipes
                      /\ swipe' = [resetSwipe(swipe) EXCEPT !.target = "none",
                                                     !.horizontalSeen = FALSE]
              /\ last' = [op |-> "touchend", dir |-> IF commits THEN direction ELSE 0,
                          from |-> MonthIndex(currentDate),
                          target |-> swipe.target, startX |-> swipe.swipeStartX,
                          offsetX |-> offsetX, deltaX |-> deltaX, deltaY |-> deltaY,
                          deltaTime |-> deltaTime, committed |-> commits,
                          horizontalSeen |-> swipe.horizontalSeen,
                          queued |-> Len(pendingSwipes)]
    /\ UNCHANGED <<notes, api, host, running, popup, tasks, today, currentDate, showCompletedTasks,
                   grid, wheel>>

\* handleTouchCancel
TouchCancel ==
    /\ swipe.target # "none"
    /\ swipe' = [resetSwipe(swipe) EXCEPT !.target = "none",
                                                     !.horizontalSeen = FALSE]
    /\ last' = TouchRecord("touchcancel")
    /\ UNCHANGED <<notes, api, host, running, popup, tasks, today, currentDate, showCompletedTasks,
                   grid, wheel, pendingSwipes>>

InitSwipe ==
    /\ notes = <<>>
    /\ api = NoApi
    /\ host = HostDefault
    /\ popup = NoPopup
    /\ today \in CalTodays
    /\ tasks = <<Task(SampleText, today, "p", 0, FALSE)>>
    /\ currentDate = DateOfDay(today)
    /\ showCompletedTasks = TRUE
    /\ grid = renderCalendar(tasks, today, showCompletedTasks, currentDate)
    /\ wheel = WheelInit
    /\ swipe = SwipeIdle
    /\ pendingSwipes = <<>>
    /\ running = <<>>
    /\ last = NoLast

NextSwipe == TouchStart \/ TouchMove \/ TouchEnd \/ TouchCancel \/ handleSwipeResume

SpecSwipe == InitSwipe /\ [][NextSwipe]_vars

C11_SwipeExamples ==
    /\ (/\ last.op = "touchend" /\ ~shouldIgnoreTarget(last.target)
        /\ last.deltaX = 15 /\ last.deltaY = 0 /\ last.deltaTime = 100)
       => /\ ~last.committed
          /\ Len(pendingSwipes) = last.queued
          /\ MonthIndex(currentDate) = last.from
    /\ (/\ last.op = "touchend" /\ ~shouldIgnoreTarget(last.target)
        /\ last.horizontalSeen
        /\ last.deltaX = 25 /\ last.deltaY = 0 /\ last.deltaTime = 150)
       => /\ last.committed
          /\ Len(pendingSwipes) = last.queued + 1
    /\ last.op = "swipe" => MonthIndex(currentDate) \in {last.from - 1, last.from + 1}

(***************************************************************************)
(* Task creation: insertTask of the plugin with getOrCreateMonthlyNote.    *)
(* A content is the string of a note, with "NL" between its lines.         *)
(***************************************************************************)
\* String.prototype.trimEnd, trimStart and trim
RECURSIVE TrimEnd(_)
TrimEnd(s) ==
    IF Len(s) > 0 /\ IsWs(s[Len(s)]) THEN TrimEnd(SubSeq(s, 1, Len(s) - 1)) ELSE s

RECURSIVE TrimStart(_)
TrimStart(s) == IF Len(s) > 0 /\ IsWs(s[1]) THEN TrimStart(Tail(s)) ELSE s

Trim(s) == TrimStart(TrimEnd(s))

\* the date as YYYY-MM-DD, from getFullYear, getMonth and getDate
IsoTokenOf(day) ==
    CHOOSE tok \in IsoTokens :
        /\ IsoFields(tok)[3] <= DaysInMonth(IsoFields(tok)[1], IsoFields(tok)[2] - 1)
        /\ MakeDay(IsoFields(tok)[1], IsoFields(tok)[2] - 1, IsoFields(tok)[3]) = day

\* getDateHeader: moment(date).format('YYYY-MM')
getDateHeader(day) ==
    CHOOSE tok \in MonthTokens :
        MonthFields(tok) = <<DateOfDay(day).y, DateOfDay(day).m + 1>>

\* the path getOrCreateMonthlyNote looks up and creates
MonthlyNotePath(day, hst) ==
    LET folderPath == TrimSlashes(hst.createTaskFolderPath)
    IN  IF folderPath = <<>> THEN <<getDateHeader(day), ".md">>
        ELSE folderPath \o <<"/", getDateHeader(day), ".md">>

\* variant: the content is kept with its trailing whitespace
AppendTaskUntrimmed(content, finalTaskLine) ==
    LET taskText == IF finalTaskLine[Len(finalTaskLine)] = "NL"
                    THEN TrimEnd(finalTaskLine) ELSE finalTaskLine
    IN  content \o (IF Len(content) > 0 THEN <<"NL">> ELSE <<>>) \o taskText \o <<"NL">>

\* newContent of insertTask
AppendTask(content, finalTaskLine) ==
    LET trimmedContent == TrimEnd(content)
        taskText == IF finalTaskLine[Len(finalTaskLine)] = "NL"
                    THEN TrimEnd(finalTaskLine) ELSE finalTaskLine
        separator == IF Len(trimmedContent) > 0 THEN <<"NL">> ELSE <<>>
    IN  trimmedContent \o separator \o taskText \o <<"NL">>

\* finalTaskLine: the line of the prompt, with due:: and the supplied date after
\* it when a date is supplied and the line has no date word
FinalTaskLine(taskLine, date) ==
    IF date.valid /\ ~(\E i \in 1..Len(taskLine) : taskLine[i] \in DateKeys)
    THEN Trim(taskLine) \o <<" ", "due::", IsoTokenOf(date.day)>>
    ELSE taskLine

\* targetDate of insertTask: the date of the finalized line, else the supplied
\* date, else today
TargetDate(finalTaskLine, date, hst, td) ==
    LET extractedDate == extractDateFromText(finalTaskLine, hst.tzWest)
    IN  IF extractedDate.valid THEN extractedDate.day
        ELSE IF date.valid THEN date.day
        ELSE td

\* what the storage does during a call: whether the folder of the setting is
\* there already, and which of createFolder, create, read and modify throw
Storage(folderExists, createFolder, create, read, modify) ==
    [folderExists |-> folderExists, createFolder |-> createFolder, create |-> create,
     read |-> read, modify |-> modify]
StorageFailures ==
    { Storage(TRUE, FALSE, FALSE, FALSE, FALSE), Storage(FALSE, FALSE, FALSE, FALSE, FALSE),
      Storage(FALSE, TRUE, FALSE, FALSE, FALSE), Storage(FALSE, TRUE, TRUE, FALSE, FALSE),
      Storage(TRUE, FALSE, TRUE, FALSE, FALSE), Storage(TRUE, FALSE, FALSE, TRUE, FALSE),
      Storage(TRUE, FALSE, FALSE, FALSE, TRUE) }

\* the storage calls of getOrCreateMonthlyNote and insertTask in their order, up
\* to the one that ends the call, the notices shown, the first call that threw
\* ("none" when none did) and whether the note was created
StorageSteps(hst, existed, fails) ==
    LET makesFolder == /\ ~existed
                       /\ TrimSlashes(hst.createTaskFolderPath) # <<>>
                       /\ ~fails.folderExists
        folderThrows == makesFolder /\ fails.createFolder
        \* createFolder and its catch, which shows a notice and goes on
        folderSteps == IF makesFolder THEN <<"createFolder">> ELSE <<>>
        folderNotices == IF folderThrows THEN <<"failedToCreateFolder">> ELSE <<>>
        fileSteps == IF existed THEN <<>> ELSE <<"create">>
        firstOf(step) == IF folderThrows THEN "createFolder" ELSE step
    IN  IF ~existed /\ fails.create
        \* the catch of create returns null, and insertTask shows its own notice
        THEN [steps |-> folderSteps \o fileSteps,
              notices |-> folderNotices
                             \o <<"failedToCreateNote", "failedToCreateOrAccessNote">>,
              failed |-> firstOf("create"), created |-> FALSE]
        \* read and modify are not in a try block
        ELSE IF fails.read
        THEN [steps |-> folderSteps \o fileSteps \o <<"read">>,
              notices |-> folderNotices,
              failed |-> firstOf("read"), created |-> ~existed]
        ELSE [steps |-> folderSteps \o fileSteps \o <<"read", "modify">>,
              notices |-> folderNotices
                             \o (IF fails.modify THEN <<>> ELSE <<"taskAddedSuccessfully">>),
              failed |-> firstOf(IF fails.modify THEN "modify" ELSE "none"),
              created |-> ~existed]

\* insertTask with the line taskLine from the prompt (the empty line when the
\* prompt is cancelled): whether a line was added, the vault after it, the note
\* that was the target and whether it existed, and what the storage was asked
insertTask(ns, tasksApi, hst, td, date, taskLine, fails) ==
    LET finalTaskLine == FinalTaskLine(taskLine, date)
        path == MonthlyNotePath(TargetDate(finalTaskLine, date, hst, td), hst)
        existed == path \in DOMAIN ns
        content == IF existed THEN JoinLines(ns[path]) ELSE <<>>
        newContent == AppendTask(content, finalTaskLine)
        storage == StorageSteps(hst, existed, fails)
        done == ~((~existed /\ fails.create) \/ fails.read \/ fails.modify)
    IN  IF ~tasksApi.present \/ taskLine = <<>>
        THEN [done |-> FALSE, notes |-> ns, target |-> <<>>, existed |-> FALSE,
              finalTaskLine |-> <<>>, before |-> <<>>, steps |-> <<>>,
              notices |-> IF tasksApi.present THEN <<>> ELSE <<"tasksPluginNotFound">>,
              failed |-> "none"]
        ELSE IF ~done
        THEN [done |-> FALSE,
              notes |-> IF storage.created
                        THEN [p \in DOMAIN ns \cup {path} |->
                                IF p = path THEN SplitLines(<<>>) ELSE ns[p]]
                        ELSE ns,
              target |-> <<>>, existed |-> FALSE,
              finalTaskLine |-> <<>>, before |-> <<>>, steps |-> storage.steps,
              notices |-> storage.notices, failed |-> storage.failed]
        ELSE [done |-> TRUE,
              notes |-> [p \in DOMAIN ns \cup {path} |->
                           IF p = path THEN SplitLines(newContent) ELSE ns[p]],
              target |-> path, existed |-> existed,
              finalTaskLine |-> finalTaskLine, before |-> content,
              steps |-> storage.steps, notices |-> storage.notices,
              failed |-> storage.failed]

MaxCreations == 2

NewLine(rest) == <<"-", " ", "[", " ", "]", " ", "t">> \o rest
ModalLines ==
    { <<>>,
      NewLine(<<>>),
      NewLine(<<" ", CAL, " ", "2024-01-30">>),
      NewLine(<<" ", CAL, " ", "2024-03-01", " ", "NL">>),
      NewLine(<<" ", CAL, " ", "2024-02-31">>),
      NewLine(<<" ", CAL>>),
      <<" ">> \o NewLine(<<" ">>) }

\* the date createTask is called with: none from the command, the date of the
\* cell from the calendar
SuppliedDates ==
    { NoDate, [valid |-> TRUE, day |-> MakeDay(2024, 0, 30), time |-> 0],
      [valid |-> TRUE, day |-> MakeDay(2024, 2, 1), time |-> 0] }

MarchNote == <<"2024-03", ".md">>
MarchContents ==
    { << <<>> >>, <<LineOther>>, <<LineOther, <<>>>>, <<LineOther, <<" ">>, <<>>>>,
      << <<>>, <<>> >>, << <<>>, LineOther>> }

CreateVaults ==
    {<<>>} \cup { [path \in {MarchNote} |-> content] : content \in MarchContents }

CreateHosts ==
    { [HostDefault EXCEPT !.createTaskFolderPath = folder, !.tzWest = west] :
        folder \in {<<>>, <<"/", "n", "/">>}, west \in BOOLEAN }

CreateApi == [present |-> TRUE, listing |-> "none", tasks |-> <<>>, createTaskLineModal |-> TRUE]

\* the command and the calendar's button: createTask, which is insertTask
CreateTask ==
    /\ (IF last.op = "create" THEN last.count ELSE 0) < MaxCreations
    /\ \E date \in SuppliedDates, taskLine \in ModalLines :
          \E out \in { insertTask(notes, api, host, today, date, taskLine, fails) :
                          fails \in StorageFailures } :
             /\ notes' = out.notes
             /\ last' = [op |-> "create", done |-> out.done, target |-> out.target,
                         steps |-> out.steps, notices |-> out.notices,
                         failed |-> out.failed,
                         existed |-> out.existed, before |-> out.before,
                         finalTaskLine |-> out.finalTaskLine, date |-> date,
                         taskLine |-> taskLine,
                         count |-> (IF last.op = "create" THEN last.count ELSE 0) + 1]
    /\ UNCHANGED <<api, host, running, popup, tasks, today, currentDate, showCompletedTasks, grid,
                   wheel, swipe, pendingSwipes>>

InitCreate ==
    /\ notes \in CreateVaults
    /\ api \in {NoApi, CreateApi}
    /\ host \in CreateHosts
    /\ popup = NoPopup
    /\ today \in {MakeDay(2024, 0, 31), MakeDay(2024, 2, 1)}
    /\ tasks = <<>>
    /\ currentDate = DateOfDay(today)
    /\ showCompletedTasks = TRUE
    /\ grid = NoGrid
    /\ wheel = WheelInit
    /\ swipe = SwipeIdle
    /\ pendingSwipes = <<>>
    /\ running = <<>>
    /\ last = NoLast

NextCreate == CreateTask

SpecCreate == InitCreate /\ [][NextCreate]_vars

\* C34: a call of insertTask in which a storage call throws makes no storage call
\* after that one, leaves every note that was there as it was, and shows exactly
\* one notice.
C34_StorageFailureAborts ==
    [][ (last'.op = "create" /\ last'.failed # "none")
        => /\ last'.steps[Len(last'.steps)] = last'.failed
           /\ \A p \in DOMAIN notes : p \in DOMAIN notes' /\ notes'[p] = notes[p]
           /\ Len(last'.notices) = 1 ]_vars

\* the index of the last character of s that is no whitespace, 0 when there is none
LastInk(s) ==
    IF \A i \in 1..Len(s) : IsWs(s[i]) THEN 0
    ELSE CHOOSE i \in 1..Len(s) : ~IsWs(s[i]) /\ \A j \in (i + 1)..Len(s) : IsWs(s[j])

\* C12: after a creation that added a line, the content of the target note is its
\* content before without its trailing whitespace, a newline when that is not
\* empty, the finalized line (up to its last character that is no whitespace
\* when it ends in a newline) and one newline; a note that did not exist holds
\* the new line and its newline only, and no other note is changed.
C12_AppendedContent ==
    (last.op = "create" /\ last.done)
    => \A line \in {IF last.finalTaskLine[Len(last.finalTaskLine)] = "NL"
                    THEN SubSeq(last.finalTaskLine, 1, LastInk(last.finalTaskLine))
                    ELSE last.finalTaskLine} :
          /\ last.target \in DOMAIN notes
          /\ JoinLines(notes[last.target])
                = SubSeq(last.before, 1, LastInk(last.before))
                     \o (IF LastInk(last.before) > 0 THEN <<"NL">> ELSE <<>>)
                     \o line \o <<"NL">>
          /\ ~last.existed => notes[last.target] = <<line, <<>>>>

C12_Witness ==
    /\ last.op = "create" /\ last.done /\ last.existed
    /\ LastInk(last.before) > 0
    /\ LastInk(last.before) < Len(last.before)
    /\ last.count = 2

\* the date token of a line: the one after the first date word that has one, else
\* the first of the line, "" when the line has none
TokenOfLine(line) ==
    LET keyed == { i \in 1..Len(line) :
                     /\ line[i] \in DateKeys
                     /\ \E k \in (i + 1)..Len(line) :
                           /\ line[k] \in IsoTokens
                           /\ \A h \in (i + 1)..(k - 1) : IsWs(line[h]) }
        bare == { i \in 1..Len(line) : line[i] \in IsoTokens }
        least(S) == CHOOSE i \in S : \A j \in S : i <= j
    IN  IF keyed # {}
        THEN line[CHOOSE k \in (least(keyed) + 1)..Len(line) :
                     line[k] \in IsoTokens /\ \A h \in (least(keyed) + 1)..(k - 1) : IsWs(line[h])]
        ELSE IF bare # {} THEN line[least(bare)]
        ELSE ""

\* the token names a day of the calendar
IsCalendarDay(tok) ==
    /\ IsoFields(tok)[2] \in 1..12
    /\ IsoFields(tok)[3] \in 1..DaysInMonth(IsoFields(tok)[1], IsoFields(tok)[2] - 1)

\* C13: the note that receives the line is the month note of the date token of
\* the finalized line, whatever date was supplied, and the month note of today
\* when the finalized line has no date token.
C13_TargetFromLineToken ==
    (last.op = "create" /\ last.done)
    => \A tok \in {TokenOfLine(last.finalTaskLine)} :
          IF tok = ""
          THEN MonthFields(Basename(last.target))
                  = <<DateOfDay(today).y, DateOfDay(today).m + 1>>
          ELSE IsCalendarDay(tok)
                  => MonthFields(Basename(last.target))
                        = <<IsoFields(tok)[1], IsoFields(tok)[2]>>

(***************************************************************************)
(* The popup of a day (TasksForDateModal): it is opened from a cell with   *)
(* the cell's date and tasks, and a committed swipe in it moves its date   *)
(* by one day after a delay of 200ms.                                      *)
(***************************************************************************)
MaxPopupTasks == 2
MaxPopupDrift == 2

\* the constructor's sort: overdue first, then incomplete, then completed
PopupConstructorSort(ts, date) ==
    LET overdue(task) == task.date < date /\ ~task.isCompleted
        open(task) == ~overdue(task) /\ ~task.isCompleted
        done(task) == task.isCompleted
    IN  SelectSeq(ts, overdue) \o SelectSeq(ts, open) \o SelectSeq(ts, done)

\* the elements a touch in the popup can go down on
PopupTargets == {"text", "checkbox", "a", "button", "task-extras"}

\* the elements handleSwipeStart leaves alone, and those handleSwipeMove and
\* handleSwipeEnd leave alone
PopupIgnoresStart(target) ==
    target \in {"checkbox", "button", "a", "task-extras", "modal-close-button"}
PopupIgnores(target) == target \in {"checkbox", "button", "a", "task-extras"}

PopupOffsetsX == {-25, -3, 8, 25}
PopupOffsetsY == {0, 100}
PopupDurations == {100, 600}

\* the test of handleSwipeEnd; velocity > 0.15 is absDeltaX / deltaTime > 15 / 100
PopupShouldCommit(absDeltaX, absDeltaY, deltaTime) ==
    /\ absDeltaX > 20 \/ absDeltaX * 100 > 15 * deltaTime
    /\ deltaTime < 600
    /\ absDeltaY < 100

\* variant: a swipe to the left is the day before
PopupDirectionReversed(deltaX) == IF deltaX < 0 THEN -1 ELSE 1

\* direction of handleSwipeEnd: 1 is the next day (swipe left), -1 the day before
PopupDirection(deltaX) == IF deltaX < 0 THEN 1 ELSE -1

\* newDate.setDate(newDate.getDate() + direction)
PopupNewDate(day, direction) ==
    DayOfDate(SetDate(DateOfDay(day), DateOfDay(day).d + direction))

PopupRecord(op) == [op |-> op, dir |-> 0, from |-> MonthIndex(currentDate)]

\* a click on a cell that has tasks opens the popup with the cell's date and tasks
CellClick ==
    /\ ~popup.open
    /\ \E cellDay \in (today - 1)..(today + 1) :
          \E cellTasks \in {CellTasks(tasks, today, showCompletedTasks, cellDay)} :
             /\ Len(cellTasks) > 0
             /\ popup' = [open |-> TRUE, date |-> cellDay,
                          tasks |-> PopupConstructorSort(cellTasks, cellDay),
                          swipe |-> PopupSwipeIdle, pending |-> <<>>,
                                sections |-> NoSections, bound |-> <<>>]
    /\ last' = PopupRecord("open")
    /\ UNCHANGED <<notes, api, host, running, tasks, today, currentDate, showCompletedTasks,
                   grid, wheel, swipe, pendingSwipes>>

\* handleSwipeStart of the popup
PopupTouchStart ==
    /\ popup.open
    /\ popup.swipe.target = "none"
    /\ \E clientX \in StartXs, target \in PopupTargets :
          popup' = [popup EXCEPT !.swipe =
                      IF PopupIgnoresStart(target)
                      THEN [@ EXCEPT !.target = target]
                      ELSE [swipeStartX |-> clientX, swipeStartY |-> StartY,
                            isSwiping |-> FALSE, touchIdentifier |-> 0,
                            target |-> target]]
    /\ last' = PopupRecord("popupTouchStart")
    /\ UNCHANGED <<notes, api, host, running, tasks, today, currentDate, showCompletedTasks,
                   grid, wheel, swipe, pendingSwipes>>

\* handleSwipeMove of the popup
PopupTouchMove ==
    /\ popup.open
    /\ popup.swipe.target # "none"
    /\ \E offsetX \in PopupOffsetsX, offsetY \in PopupOffsetsY :
          LET sw == popup.swipe
              absDeltaX == Abs(offsetX)
              absDeltaY == Abs(offsetY)
              handled == /\ ~PopupIgnores(sw.target)
                         /\ sw.touchIdentifier # -1 /\ sw.swipeStartX # 0
          IN  /\ sw.swipeStartX + offsetX >= 0
              /\ popup' = [popup EXCEPT !.swipe.isSwiping =
                             IF /\ handled
                                /\ absDeltaX > 5 \/ sw.isSwiping
                                /\ absDeltaX > absDeltaY \/ sw.isSwiping
                             THEN TRUE ELSE @]
    /\ last' = PopupRecord("popupTouchMove")
    /\ UNCHANGED <<notes, api, host, running, tasks, today, currentDate, showCompletedTasks,
                   grid, wheel, swipe, pendingSwipes>>

\* handleSwipeEnd of the popup; a release that commits sets the timer whose
\* callback moves the date
PopupTouchEnd ==
    /\ popup.open
    /\ popup.swipe.target # "none"
    /\ \E offsetX \in PopupOffsetsX, offsetY \in PopupOffsetsY,
          deltaTime \in PopupDurations :
          LET sw == popup.swipe
              commits == /\ ~PopupIgnores(sw.target)
                         /\ sw.touchIdentifier # -1 /\ sw.swipeStartX # 0
                         /\ sw.isSwiping
                         /\ PopupShouldCommit(Abs(offsetX), Abs(offsetY), deltaTime)
              direction == PopupDirection(offsetX)
          IN  /\ sw.swipeStartX + offsetX >= 0
              /\ commits => Len(popup.pending) < MaxPendingSwipes
              /\ popup' = [popup EXCEPT
                             !.swipe = [@ EXCEPT !.swipeStartX = 0, !.isSwiping = FALSE,
                                                 !.touchIdentifier = -1,
                                                 !.target = "none"],
                             !.pending = IF commits
                                         THEN Append(@, [direction |-> direction,
                                                         target |-> sw.target,
                                                         offsetX |-> offsetX])
                                         ELSE @]
              /\ last' = [op |-> "popupTouchEnd", dir |-> 0,
                          from |-> MonthIndex(currentDate), target |-> sw.target,
                          committed |-> commits, fromDay |-> popup.date,
                          queued |-> Len(popup.pending)]
    /\ UNCHANGED <<notes, api, host, running, tasks, today, currentDate, showCompletedTasks,
                   grid, wheel, swipe, pendingSwipes>>

\* handleTouchCancel of the popup
PopupTouchCancel ==
    /\ popup.open
    /\ popup.swipe.target # "none"
    /\ popup' = [popup EXCEPT !.swipe = [@ EXCEPT !.swipeStartX = 0,
                                                  !.isSwiping = FALSE,
                                                  !.touchIdentifier = -1,
                                                  !.target = "none"]]
    /\ last' = PopupRecord("popupTouchCancel")
    /\ UNCHANGED <<notes, api, host, running, tasks, today, currentDate, showCompletedTasks,
                   grid, wheel, swipe, pendingSwipes>>

\* the callback of the timer of a committed swipe: the date moves, the tasks of
\* the new date are asked from the view and sorted, and onOpen builds the content
\* anew, with new closures for the swipe handlers
PopupSwipeTimeout ==
    /\ popup.open
    /\ popup.pending # <<>>
    /\ \E swiped \in {Head(popup.pending)} :
          \E newDate \in {PopupNewDate(popup.date, swiped.direction)} :
             /\ Abs(newDate - today) <= MaxPopupDrift
             /\ popup' = [popup EXCEPT
                            !.date = newDate,
                            !.tasks = SortIncompleteFirst(
                                         getTasksForDate(tasks, today, newDate)),
                            !.swipe = [PopupSwipeIdle EXCEPT !.target = popup.swipe.target],
                            !.pending = Tail(@)]
             /\ last' = [op |-> "popupSwipe", dir |-> swiped.direction,
                         from |-> MonthIndex(currentDate), target |-> swiped.target,
                         offsetX |-> swiped.offsetX, fromDay |-> popup.date]
    /\ UNCHANGED <<notes, api, host, running, tasks, today, currentDate, showCompletedTasks,
                   grid, wheel, swipe, pendingSwipes>>

\* the days the view is opened on: the last day of a year and the end of February
PopupTodays == { MakeDay(MinYear, 11, 31), MakeDay(MinYear, 1, 28) }

\* task lists as loadTasks leaves them, dated around the clock
PopupTaskLists(td) ==
    LET shapes == SeqsUpTo({-1, 0, 1} \X BOOLEAN, MaxPopupTasks)
    IN  { [i \in 1..Len(q) |-> Task(SampleText, td + q[i][1], "p", i - 1, q[i][2])] :
            q \in shapes }

InitPopup ==
    /\ notes = <<>>
    /\ api = NoApi
    /\ host = HostDefault
    /\ today \in PopupTodays
    /\ tasks \in PopupTaskLists(today)
    /\ currentDate = DateOfDay(today)
    /\ showCompletedTasks = TRUE
    /\ grid = renderCalendar(tasks, today, showCompletedTasks, currentDate)
    /\ wheel = WheelInit
    /\ swipe = SwipeIdle
    /\ pendingSwipes = <<>>
    /\ popup = NoPopup
    /\ running = <<>>
    /\ last = NoLast

NextPopup ==
    \/ CellClick
    \/ PopupTouchStart
    \/ PopupTouchMove
    \/ PopupTouchEnd
    \/ PopupTouchCancel
    \/ PopupSwipeTimeout

SpecPopup == InitPopup /\ [][NextPopup]_vars

\* C18: the callback of a committed swipe in the popup moves the popup's date by
\* exactly one day, to the next day for a swipe to the left and to the day before
\* for a swipe to the right, also over the end of a month or a year, and leaves
\* the popup with the view's tasks of the new date, incomplete first; a touch
\* that went down on a checkbox, a link or a button commits nothing and leaves
\* the date as it was.
C18_PopupSwipe ==
    /\ last.op = "popupSwipe" =>
          /\ last.dir = (IF last.offsetX < 0 THEN 1 ELSE -1)
          /\ popup.date = last.fromDay + last.dir
          /\ popup.tasks = SortIncompleteFirst(getTasksForDate(tasks, today, popup.date))
          /\ last.target \notin {"checkbox", "a", "button"}
    /\ (last.op = "popupTouchEnd" /\ last.target \in {"checkbox", "a", "button"}) =>
          /\ ~last.committed
          /\ popup.date = last.fromDay
          /\ Len(popup.pending) = last.queued

C18_Witness ==
    /\ last.op = "popupSwipe"
    /\ DateOfDay(popup.date).y # DateOfDay(last.fromDay).y
    /\ Len(popup.tasks) > 0

(***************************************************************************)
(* The dates of the loaded tasks.                                          *)
(***************************************************************************)
\* the day a date token names
DayOfToken(tok) == MakeDay(IsoFields(tok)[1], IsoFields(tok)[2] - 1, IsoFields(tok)[3])

\* the date token that follows the calendar emoji and a space in text, "" if none
MarkerToken(text) ==
    LET at == { i \in 1..(Len(text) - 2) :
                  text[i] = CAL /\ text[i + 1] = " " /\ text[i + 2] \in IsoTokens }
    IN  IF at = {} THEN ""
        ELSE text[(CHOOSE i \in at : \A j \in at : i <= j) + 2]

\* C15: a checklist line in the scan scope that carries the calendar emoji, a
\* space and the token of a calendar day is loaded, by the scan of the files and
\* through an index service that lists the vault's checklist lines, as a task
\* whose date is that day, whatever the offset of the local time zone, and whose
\* isCompleted is false when the status symbol is a blank.
C15_DateOfMarkedLine ==
    (/\ last.op = "load"
     /\ last.manualOnly \/ api = IndexApi(notes)
     /\ last.unreadable = {})
    => \A key \in MarkedLines(notes, host) :
          \A m \in {MatchTask(notes[key[1]][key[2] + 1])} :
             \A tok \in {MarkerToken(m.text)} :
                (tok # "" /\ IsCalendarDay(tok))
                => \E i \in 1..Len(tasks) :
                      /\ TaskKey(tasks[i]) = key
                      /\ tasks[i].date = DayOfToken(tok)
                      /\ tasks[i].time = 0
                      /\ m.marker = " " => ~tasks[i].isCompleted

C21_CompletedFromMarker ==
    last.op = "load" =>
        \A i \in 1..Len(tasks) :
           LET lines == notes[tasks[i].path]
           IN  /\ tasks[i].line < Len(lines)
               /\ MatchTask(lines[tasks[i].line + 1]).prefix
               /\ tasks[i].isCompleted
                     <=> IsDone(MatchTask(lines[tasks[i].line + 1]).marker)

\* the index entries of the date sources: an entry of a note with any of its three
\* date fields unset, set to a date or, for due, set to a value that is no date
DateFields ==
    { <<"", "", "">>, <<"2024-01-10", "", "">>, <<"", "2024-01-20", "">>,
      <<"", "", "2024-01-25">>, <<"2024-01-10", "2024-01-20", "2024-01-25">>,
      <<"bad", "2024-01-20", "">> }
DateEntries ==
    { [ApiEntry(path, 0, description, " ", f[1]) EXCEPT !.start = f[2], !.scheduled = f[3]] :
        path \in {PathA, PathB},
        description \in {<<"d", " ", CAL>>, <<"a", " ", CAL, " ", "2024-01-30">>},
        f \in DateFields }

DateFormats == {"YYYY-MM", "YYYY-DD", "MM-YYYY"}

InitDate ==
    /\ notes \in { [path \in {PathA, PathB} |->
                      IF path = PathA THEN content ELSE <<LineOther>>] :
                   content \in {<<LineDated>>, <<LineOther>>} }
    /\ api \in {NoApi} \cup { [present |-> TRUE, listing |-> "getTasks", tasks |-> <<e>>] :
                               e \in DateEntries }
    /\ host \in { [HostDefault EXCEPT !.filenameFormat = format, !.tzWest = west] :
                    format \in DateFormats, west \in BOOLEAN }
    /\ popup = NoPopup
    /\ tasks = <<>>
    /\ today = MakeDay(MinYear, 1, 15)
    /\ currentDate = DateOfDay(today)
    /\ showCompletedTasks = TRUE
    /\ grid = NoGrid
    /\ wheel = WheelInit
    /\ swipe = SwipeIdle
    /\ pendingSwipes = <<>>
    /\ running = <<>>
    /\ last = NoLast

SpecDate == InitDate /\ [][NextLoad]_vars

\* the first valid date of a list of sources
RECURSIVE FirstValid(_)
FirstValid(sources) ==
    IF sources = <<>> THEN NoDate
    ELSE IF Head(sources).valid THEN Head(sources) ELSE FirstValid(Tail(sources))

\* the date a date field of an index entry gives
FieldDate(value, tzWest) ==
    IF value \in IsoTokens THEN NewDate(value, tzWest) ELSE NoDate

\* the sources both strategies go on with after the text: the file name under the
\* configured format, the file name under the legacy pattern, today
FileSources(path) ==
    <<ConfiguredDate(path, host.filenameFormat), LegacyDate(path), Now(today)>>

\* C22: the date of a loaded task is the first valid date in the order of its
\* strategy: for an index entry its due, start and scheduled fields, then for both
\* strategies a date token of the task text, the file name under the configured
\* format, the file name under the legacy pattern, and today.
C22_FirstDateSource ==
    last.op = "load" =>
        \A i \in 1..Len(tasks) :
           IF last.manualOnly
           THEN tasks[i].date =
                   FirstValid(<<extractDateFromText(tasks[i].text, host.tzWest)>>
                              \o FileSources(tasks[i].path)).day
           ELSE \A k \in 1..Len(api.tasks) :
                   LET entry == api.tasks[k]
                   IN  (entry.path = tasks[i].path /\ entry.line = tasks[i].line)
                       => tasks[i].date =
                             FirstValid(<<FieldDate(entry.due, host.tzWest),
                                          FieldDate(entry.start, host.tzWest),
                                          FieldDate(entry.scheduled, host.tzWest),
                                          extractDateFromText(entry.description,
                                                              host.tzWest)>>
                                        \o FileSources(tasks[i].path)).day

\* notes with runs of nested lines: a checklist line with no or some indentation,
\* followed by lines indented less, as much or more, blank lines, lines of blanks
\* only, a tab-indented line and a nested checklist line
MaxFollowing == 3
LineIndented == <<" ", " ", "-", " ", "[", " ", "]", " ", "d", " ", CAL>>
FollowingLines ==
    { <<" ", "n">>, <<" ", " ", "n">>, <<" ", " ", " ", "n">>, <<>>,
      <<" ", " ", " ", " ">>, <<"TAB", "n">>,
      <<" ", " ", " ", "-", " ", "[", "x", "]", " ", "e", " ", CAL>> }
NestedContents ==
    { <<first>> \o rest :
        first \in {LineOther, LineIndented},
        rest \in UNION { SeqsUpTo(FollowingLines, n) : n \in 0..MaxFollowing } }

InitNested ==
    /\ notes \in { [path \in {PathA, PathB} |->
                      IF path = PathA THEN content ELSE <<LineOther>>] :
                   content \in NestedContents }
    /\ api \in {NoApi, IndexApi(notes)}
    /\ host = HostDefault
    /\ popup = NoPopup
    /\ tasks = <<>>
    /\ today = MakeDay(MinYear, 1, 15)
    /\ currentDate = DateOfDay(today)
    /\ showCompletedTasks = TRUE
    /\ grid = NoGrid
    /\ wheel = WheelInit
    /\ swipe = SwipeIdle
    /\ pendingSwipes = <<>>
    /\ running = <<>>
    /\ last = NoLast

SpecNested == InitNested /\ [][NextLoad]_vars

\* the first line after line i (one-based) that is not blank and is not indented
\* deeper than indent, or the position after the last line
RunEnd(lines, i, indent) ==
    CHOOSE k \in (i + 1)..(Len(lines) + 1) :
        /\ k = Len(lines) + 1 \/ (~IsBlank(lines[k]) /\ WsRun(lines[k], 1) <= indent)
        /\ \A j \in (i + 1)..(k - 1) : IsBlank(lines[j]) \/ WsRun(lines[j], 1) > indent

\* C23: the text of a task loaded from line i of a note whose read succeeded is
\* the text of the line followed by the lines i+1..k-1, where k is the first line
\* after i that is not blank and is not indented deeper than line i; blank lines in
\* between are kept; and the index-backed pass and the scan of the files give the
\* same text for the same line.
C23_NestedRun ==
    (last.op = "load" /\ last.unreadable = {}) =>
        /\ \A i \in 1..Len(tasks) :
              LET lines == notes[tasks[i].path]
                  at == tasks[i].line + 1
                  m == MatchTask(lines[at])
                  run == SubSeq(lines, at + 1, RunEnd(lines, at, m.indent) - 1)
              IN  /\ at <= Len(lines)
                  /\ m.full
                  /\ tasks[i].text =
                        (IF run = <<>> THEN m.text ELSE m.text \o <<"NL">> \o JoinLines(run))
        /\ \E manual \in {loadTasksResult(loadTasksManually(notes, host, today, {}))} :
              \A i \in 1..Len(tasks), j \in 1..Len(manual) :
                 TaskKey(tasks[i]) = TaskKey(manual[j]) => tasks[i].text = manual[j].text

C23_Witness ==
    /\ last.op = "load"
    /\ last.unreadable = {}
    /\ api.present
    /\ \E i \in 1..Len(tasks) :
          /\ tasks[i].path = PathA
          /\ tasks[i].line = 0
          /\ notes[PathA] = <<LineIndented, <<" ", " ", " ", "n">>, <<>>, <<" ", " ", "n">>>>
          /\ tasks[i].text = <<"d", " ", CAL, "NL", " ", " ", " ", "n", "NL">>

(***************************************************************************)
(* The sections of the popup: onOpen splits this.tasks into the overdue,   *)
(* the current and the completed tasks and renders them in that order.     *)
(***************************************************************************)
overdueTasks(ts, date) ==
    LET overdue(task) == task.date < date /\ ~task.isCompleted
    IN  SelectSeq(ts, overdue)

\* variant: the overdue tasks are not taken out
currentDayTasksAll(ts, date) == ts

\* this.tasks.filter(t => !overdueTasks.includes(t))
currentDayTasks(ts, date) ==
    LET rest(task) == ~InSeq(task, overdueTasks(ts, date))
    IN  SelectSeq(ts, rest)

incompleteTasks(ts, date) ==
    LET open(task) == ~task.isCompleted
    IN  SelectSeq(currentDayTasks(ts, date), open)

completedTasks(ts, date) ==
    LET done(task) == task.isCompleted
    IN  SelectSeq(currentDayTasks(ts, date), done)

\* C28: in an open popup the overdue, current and completed sections have no
\* task in common, together they hold the tasks of the popup's list, an overdue
\* task is incomplete and dated before the popup's date, a current task is
\* incomplete and dated on the popup's date, a completed task is completed, and
\* the popup's list is the overdue tasks followed by the current and then the
\* completed ones.
C28_PopupSections ==
    popup.open =>
        \A overdue \in {overdueTasks(popup.tasks, popup.date)},
           current \in {incompleteTasks(popup.tasks, popup.date)},
           completed \in {completedTasks(popup.tasks, popup.date)} :
           /\ \A i \in 1..Len(overdue) :
                 ~InSeq(overdue[i], current) /\ ~InSeq(overdue[i], completed)
           /\ \A i \in 1..Len(current) : ~InSeq(current[i], completed)
           /\ \A i \in 1..Len(popup.tasks) :
                 \/ InSeq(popup.tasks[i], overdue)
                 \/ InSeq(popup.tasks[i], current)
                 \/ InSeq(popup.tasks[i], completed)
           /\ \A i \in 1..Len(overdue) :
                 ~overdue[i].isCompleted /\ overdue[i].date < popup.date
           /\ \A i \in 1..Len(current) :
                 ~current[i].isCompleted /\ current[i].date = popup.date
           /\ \A i \in 1..Len(completed) : completed[i].isCompleted
           /\ popup.tasks = overdue \o current \o completed

\* the popup of today's cell with an overdue task and a task of today
C28_Witness ==
    /\ popup.open
    /\ popup.date = today
    /\ Len(overdueTasks(popup.tasks, popup.date)) = 1
    /\ Len(incompleteTasks(popup.tasks, popup.date)) = 1
    /\ tasks[1].date = today /\ tasks[2].date = today - 1

\* what onOpen leaves in the overdue section: with the external renderer present
\* the query block is rendered and overdueRendered is set before the output is
\* looked at; the markdown of the tasks is rendered when there is no external
\* renderer or when the rendering of the query threw
OverdueSection(ts, date, apiV1, throws, recognised) ==
    IF Len(overdueTasks(ts, date)) = 0 THEN "absent"
    ELSE IF apiV1 /\ ~throws THEN (IF recognised THEN "query" ELSE "blank")
    ELSE "manual"

\* tasksRendered: after the queries of the current and the completed tasks and the
\* wait, some element of the today container is recognised as task output
TasksRendered(ts, date, apiV1, throws, recognisedCurrent, recognisedCompleted) ==
    /\ apiV1 /\ ~throws
    /\ \/ Len(incompleteTasks(ts, date)) > 0 /\ recognisedCurrent
       \/ Len(completedTasks(ts, date)) > 0 /\ recognisedCompleted

\* what onOpen leaves in the current and in the completed section
TodaySection(sectionTasks, tasksRendered, recognised) ==
    IF Len(sectionTasks) = 0 THEN "absent"
    ELSE IF tasksRendered THEN (IF recognised THEN "query" ELSE "blank")
    ELSE "manual"

\* onOpen of the popup; the external renderer gives, for each query block, output
\* that is recognised as tasks after the wait or not, or throws
PopupOnOpen ==
    /\ popup.open
    /\ popup.sections = NoSections
    /\ \E throwsOverdue, throwsToday \in BOOLEAN, recognised \in [DOMAIN NoSections -> BOOLEAN] :
          \E rendered \in {TasksRendered(popup.tasks, popup.date, api.present, throwsToday,
                                          recognised.current, recognised.completed)} :
             /\ popup' = [popup EXCEPT !.sections =
                            [overdue |-> OverdueSection(popup.tasks, popup.date,
                                                       api.present, throwsOverdue,
                                                       recognised.overdue),
                             current |-> TodaySection(
                                            incompleteTasks(popup.tasks, popup.date),
                                            rendered, recognised.current),
                             completed |-> TodaySection(
                                              completedTasks(popup.tasks, popup.date),
                                              rendered, recognised.completed)]]
             /\ last' = [op |-> "onOpen", dir |-> 0, from |-> MonthIndex(currentDate),
                         recognised |-> [section \in DOMAIN NoSections |->
                                           /\ api.present
                                           /\ recognised[section]
                                           /\ ~(IF section = "overdue" THEN throwsOverdue
                                                 ELSE throwsToday)]]
    /\ UNCHANGED <<notes, api, host, running, tasks, today, currentDate, showCompletedTasks,
                   grid, wheel, swipe, pendingSwipes>>

InitRender ==
    /\ notes = <<>>
    /\ api \in {NoApi, [present |-> TRUE, listing |-> "none", tasks |-> <<>>]}
    /\ host = HostDefault
    /\ today \in PopupTodays
    /\ tasks \in PopupTaskLists(today)
    /\ currentDate = DateOfDay(today)
    /\ showCompletedTasks = TRUE
    /\ grid = renderCalendar(tasks, today, showCompletedTasks, currentDate)
    /\ wheel = WheelInit
    /\ swipe = SwipeIdle
    /\ pendingSwipes = <<>>
    /\ popup = NoPopup
    /\ running = <<>>
    /\ last = NoLast

NextRender == CellClick \/ PopupOnOpen

SpecRender == InitRender /\ [][NextRender]_vars

\* the tasks of a section of the popup
SectionTasks(section) ==
    IF section = "overdue" THEN overdueTasks(popup.tasks, popup.date)
    ELSE IF section = "current" THEN incompleteTasks(popup.tasks, popup.date)
    ELSE completedTasks(popup.tasks, popup.date)

\* C29: when onOpen has filled the popup, every section that has tasks and for
\* which the external renderer gave no output recognised as tasks shows the
\* rendered markdown of its own tasks, and no section that has tasks is left
\* without them.
C29_SectionFallback ==
    last.op = "onOpen" =>
        \A section \in DOMAIN NoSections :
           Len(SectionTasks(section)) > 0 =>
              /\ popup.sections[section] # "blank"
              /\ ~last.recognised[section] => popup.sections[section] = "manual"

(***************************************************************************)
(* The accumulated wheel delta over a quiet period.                        *)
(***************************************************************************)
\* C27: a wheel event over the grid that arrives when 300ms or more have passed
\* since the last wheel event over the grid adds its delta to an accumulator of 0,
\* so that no delta accumulated before the quiet period is part of a month change;
\* once the reset of the accumulator has run the accumulator is 0.
C27_QuietPeriodClears ==
    /\ wheel.resetTimeout = -1 => wheel.accumulatedDelta = 0
    /\ (last.op \in {"wheel", "nowheel"} /\ last.timer \in {-1, 0}) => last.before = 0

(***************************************************************************)
(* A touch on a cell with tasks: the touchstart and touchend events reach  *)
(* the handlers of the grid container in the capture phase and then, when  *)
(* their propagation was not stopped, the listeners of the cell.           *)
(***************************************************************************)
TapTargets == {"cell-tasks", "fab", "nav-btn"}
TapOffsetsX == {-40, -16, -9, 0, 9, 10, 16, 40}
TapOffsetsY == {0, 9, 10}
TapDurations == {100, 299, 300}

\* the test of the cell's touchend listener for a tap
IsTap(deltaX, deltaY, deltaTime) == deltaTime < 300 /\ deltaX < 10 /\ deltaY < 10

\* handleTouchStart, and the touchstart listener of the cell, which keeps the
\* time and the position of the touch the offsets of the release are taken from
TapTouchStart ==
    /\ swipe.target = "none"
    /\ ~popup.open
    /\ grid.kind = "grid"
    /\ \E clientX \in StartXs, target \in TapTargets, i \in 1..GridCells :
          \E cell \in {Cells(grid)[i]} :
             /\ Len(cell.tasks) > 0
             /\ swipe' = IF shouldIgnoreTarget(target)
                         THEN [swipe EXCEPT !.target = target, !.horizontalSeen = FALSE]
                         ELSE [swipe EXCEPT !.swipeStartX = clientX,
                                            !.swipeStartY = StartY,
                                            !.isSwiping = FALSE, !.touchIdentifier = 0,
                                            !.target = target, !.horizontalSeen = FALSE,
                                            !.cell = cell.date]
    /\ last' = TouchRecord("tapTouchStart")
    /\ UNCHANGED <<notes, api, host, running, popup, tasks, today, currentDate, showCompletedTasks,
                   grid, wheel, pendingSwipes>>

\* handleTouchEnd with handleSwipeEndCommon, then the touchend listener of the cell
\* unless handleTouchEnd stopped the event, then the click the browser may send
\* when no listener prevented it
TapTouchEnd ==
    /\ swipe.target \in TapTargets
    /\ \E offsetX \in TapOffsetsX, offsetY \in TapOffsetsY, deltaTime \in TapDurations,
          click \in BOOLEAN :
          LET deltaX == Abs(offsetX)
              deltaY == Abs(offsetY)
              asSwipe == /\ swipe.target # "fab"
                         /\ swipe.touchIdentifier # -1 /\ swipe.swipeStartX # 0
                         /\ IsSwipeNotTap(deltaX, deltaY, swipe.isSwiping)
              commits == /\ asSwipe
                         /\ swipe.isSwiping
                         /\ SwipeShouldCommit(deltaX, deltaY, deltaTime)
              direction == IF offsetX < 0 THEN 1 ELSE -1
              onCell == swipe.target = "cell-tasks" /\ ~asSwipe
              tapped == onCell /\ IsTap(deltaX, deltaY, deltaTime)
              clicked == onCell /\ ~tapped /\ click
              opens == tapped \/ clicked
          IN  /\ swipe.swipeStartX + offsetX >= 0
              /\ IF commits
                 THEN /\ handleSwipeBegin(direction)
                      /\ swipe' = [swipe EXCEPT !.swipeStartX = 0, !.isSwiping = FALSE,
                                                !.touchIdentifier = -1,
                                                !.target = "none",
                                                !.horizontalSeen = FALSE, !.cell = 0]
                 ELSE /\ pendingSwipes' = pendingSwipes
                      /\ swipe' = [resetSwipe(swipe) EXCEPT !.target = "none",
                                                     !.horizontalSeen = FALSE,
                                                     !.cell = 0]
              /\ popup' = IF opens
                          THEN [open |-> TRUE, date |-> swipe.cell,
                                tasks |-> PopupConstructorSort(
                                             CellTasks(tasks, today, showCompletedTasks,
                                                       swipe.cell), swipe.cell),
                                swipe |-> PopupSwipeIdle, pending |-> <<>>,
                                sections |-> NoSections, bound |-> <<>>]
                          ELSE popup
              /\ last' = [op |-> "tapTouchEnd", dir |-> IF commits THEN direction ELSE 0,
                          from |-> MonthIndex(currentDate),
                          target |-> swipe.target, deltaX |-> deltaX, deltaY |-> deltaY,
                          deltaTime |-> deltaTime, asSwipe |-> asSwipe,
                          committed |-> commits, tapped |-> tapped, opened |-> opens,
                          queued |-> Len(pendingSwipes)]
    /\ UNCHANGED <<notes, api, host, running, tasks, today, currentDate, showCompletedTasks,
                   grid, wheel>>

NextTap == TapTouchStart \/ TouchMove \/ TapTouchEnd \/ TouchCancel \/ handleSwipeResume

SpecTap == InitSwipe /\ [][NextTap]_vars

\* C26: the release of a touch on a cell with tasks never both opens the popup
\* and commits a month change; a touch of under 300ms that ends less than 10px
\* from where it went down on both axes opens the popup and is not handled as a
\* swipe; and the release of a touch that went down on the floating button or on
\* a navigation button commits no month change.
C26_TapOrSwipe ==
    last.op = "tapTouchEnd" =>
        /\ ~(last.opened /\ last.committed)
        /\ (last.target = "cell-tasks" /\ IsTap(last.deltaX, last.deltaY, last.deltaTime))
              => (last.opened /\ popup.open /\ ~last.asSwipe /\ ~last.committed
                  /\ Len(pendingSwipes) = last.queued)
        /\ last.target \in {"fab", "nav-btn"}
              => (~last.committed /\ Len(pendingSwipes) = last.queued)

\* a quick tap that opened the popup while the month change of an earlier swipe
\* was still in its delay
C26_Witness ==
    /\ last.op = "tapTouchEnd"
    /\ last.target = "cell-tasks"
    /\ last.tapped /\ last.deltaX = 9 /\ last.deltaTime = 299
    /\ popup.open /\ Len(popup.tasks) > 0
    /\ pendingSwipes # <<>>

(***************************************************************************)
(* The checkboxes of the popup.  The sections that onOpen writes itself    *)
(* are rendered from the lines of generateMarkdownForTasks; a timer set at *)
(* the end of onOpen then binds checkboxes to the tasks of the popup.      *)
(***************************************************************************)
NestedCheckText == <<"a", " ", "CAL", "NL", " ", " ", "-", " ", "[", " ", "]", " ", "s">>
NestedPlainText == <<"a", " ", "CAL", "NL", " ", " ", "-", " ", "n">>
BindTexts == {SampleText, NestedCheckText, NestedPlainText}

\* the lines of one task when its file cannot be read: a checklist line built
\* from the first line of the text, then the other lines of the text
FallbackLines(task) ==
    LET taskTextLines == SplitLines(task.text)
        firstLine == <<"-", " ", "[", IF task.isCompleted THEN "x" ELSE " ", "]", " ">>
                        \o taskTextLines[1]
    IN  <<firstLine>> \o Tail(taskTextLines)

\* generateMarkdownForTasks, for tasks whose files cannot be read: every line
\* with the task it was written for
RECURSIVE generateMarkdownForTasks(_)
generateMarkdownForTasks(ts) ==
    IF Len(ts) = 0 THEN <<>>
    ELSE LET lines == FallbackLines(ts[1])
         IN  [j \in 1..Len(lines) |-> [task |-> ts[1], line |-> lines[j]]]
                \o generateMarkdownForTasks(Tail(ts))

\* a line that opens a list item
IsListLine(s) ==
    LET b == WsRun(s, 1) + 1
    IN  b + 1 <= Len(s) /\ s[b] \in {"-", "*"} /\ IsWs(s[b + 1])

\* the li elements of the rendered lines in document order: a line indented under
\* the text of the item before it is an item of a sub-list, and an item has a
\* checkbox of its own when its line matches the checklist pattern
RECURSIVE ListItems(_)
ListItems(entries) ==
    IF Len(entries) = 0 THEN <<>>
    ELSE (IF IsListLine(entries[1].line)
          THEN << [task |-> entries[1].task,
                   nested |-> WsRun(entries[1].line, 1) >= 2,
                   checkbox |-> MatchTask(entries[1].line).prefix] >>
          ELSE <<>>) \o ListItems(Tail(entries))

\* the list items of markdownContainer: the overdue section, then the section of
\* the day and the completed section
ContainerItems(ts, date, sections) ==
    (IF sections.overdue = "manual"
     THEN ListItems(generateMarkdownForTasks(overdueTasks(ts, date))) ELSE <<>>)
    \o (IF sections.current = "manual"
        THEN ListItems(generateMarkdownForTasks(incompleteTasks(ts, date))) ELSE <<>>)
    \o (IF sections.completed = "manual"
        THEN ListItems(generateMarkdownForTasks(completedTasks(ts, date))) ELSE <<>>)

\* the loop of attachCheckboxHandlers over the elements that 'ul > li, ol > li'
\* selects, which are all the list items: the checkbox of an item is the first one
\* whose closest list is the list of the item
RECURSIVE BindFrom(_, _, _, _)
BindFrom(items, i, taskIndex, ts) ==
    IF i > Len(items) THEN <<>>
    ELSE IF items[i].checkbox /\ taskIndex < Len(ts)
    THEN << [item |-> items[i], task |-> ts[taskIndex + 1],
               \* taskCheckbox.checked = task.isCompleted
               checked |-> ts[taskIndex + 1].isCompleted] >>
            \o BindFrom(items, i + 1, taskIndex + 1, ts)
    ELSE BindFrom(items, i + 1, taskIndex, ts)

\* the timer of onOpen fires; the list items of a section that the external
\* renderer filled are not modelled
attachCheckboxHandlers ==
    /\ popup.open
    /\ last.op = "onOpen"
    /\ \A section \in DOMAIN NoSections : popup.sections[section] # "query"
    /\ popup' = [popup EXCEPT !.bound =
                    BindFrom(ContainerItems(popup.tasks, popup.date, popup.sections),
                             1, 0, popup.tasks)]
    /\ last' = [op |-> "attachCheckboxHandlers", dir |-> 0,
                from |-> MonthIndex(currentDate)]
    /\ UNCHANGED <<notes, api, host, running, tasks, today, currentDate, showCompletedTasks,
                   grid, wheel, swipe, pendingSwipes>>

\* task lists as loadTasks leaves them, with and without nested lines
BindTaskLists(td) ==
    LET shapes == SeqsUpTo({-1, 0, 1} \X BOOLEAN \X BindTexts, MaxPopupTasks)
    IN  { [i \in 1..Len(q) |-> Task(q[i][3], td + q[i][1], "p", i - 1, q[i][2])] :
            q \in shapes }

InitBind ==
    /\ notes = <<>>
    /\ api = NoApi
    /\ host = HostDefault
    /\ today \in PopupTodays
    /\ tasks \in BindTaskLists(today)
    /\ currentDate = DateOfDay(today)
    /\ showCompletedTasks = TRUE
    /\ grid = renderCalendar(tasks, today, showCompletedTasks, currentDate)
    /\ wheel = WheelInit
    /\ swipe = SwipeIdle
    /\ pendingSwipes = <<>>
    /\ popup = NoPopup
    /\ running = <<>>
    /\ last = NoLast

NextBind == CellClick \/ PopupOnOpen \/ attachCheckboxHandlers

SpecBind == InitBind /\ [][NextBind]_vars

\* C30: once the checkboxes are bound, the k-th bound checkbox is the one of the
\* list item written for the k-th task of the popup, and no bound checkbox is
\* the one of an item of a nested sub-list
C30_BoundCheckboxes ==
    last.op = "attachCheckboxHandlers" =>
        \A k \in 1..Len(popup.bound) :
            /\ ~popup.bound[k].item.nested
            /\ popup.bound[k].item.task = popup.tasks[k]

(***************************************************************************)
(* A toggle after the note has changed under the task: a line is put in    *)
(* above the task's line, and the checkbox is changed before or after the  *)
(* modify listener has loaded the tasks anew.                              *)
(***************************************************************************)
MaxStaleLines == 2
OtherTaskLine(marker) == <<"-", " ", "[", marker, "]", " ", "b", " ", CAL>>

\* note A gets a checklist line of another task above its lines, outside the
\* view; the modify listener has not run yet
LineInsertedAbove ==
    /\ Len(notes[PathA]) < MaxStaleLines
    /\ \E marker \in {" ", "x"} :
          notes' = [notes EXCEPT ![PathA] = <<OtherTaskLine(marker)>> \o notes[PathA]]
    /\ last' = [op |-> "edit"]
    /\ UNCHANGED <<api, host, running, popup, tasks, today, currentDate, showCompletedTasks, grid,
                   wheel, swipe, pendingSwipes>>

StaleApiChoices ==
    { NoApi,
      ToggleApi(<<>>, "ok", "none", NoTaskMethods),
      ToggleApi(<<EntryOpen>>, "none", "ok", NoTaskMethods) }

InitStale ==
    /\ notes \in { [path \in {PathA, PathB} |->
                      IF path = PathA THEN <<ToggleLine(marker)>> ELSE <<LineOther>>] :
                   marker \in {" ", "x"} }
    /\ api \in StaleApiChoices
    /\ host = HostDefault
    /\ popup = NoPopup
    /\ today = MakeDay(MinYear, 2, 1)
    /\ tasks = loadTasksResult(RawTasks(api, notes, host, today, {}))
    /\ currentDate = DateOfDay(today)
    /\ showCompletedTasks = TRUE
    /\ grid = renderCalendar(tasks, today, showCompletedTasks, currentDate)
    /\ wheel = WheelInit
    /\ swipe = SwipeIdle
    /\ pendingSwipes = <<>>
    /\ running = <<>>
    /\ last = NoLast

NextStale == CheckboxChange \/ LineInsertedAbove \/ ModifyListener

SpecStale == InitStale /\ [][NextStale]_vars

\* C38: a call changes the marker of no line but the one its task was found on: a
\* line of the task's note whose marker is not what it was before the call has
\* the text of the task.
C38_OnlyOwnLine ==
    last.op = "toggle" =>
        LET before == last.noteBefore
            after == notes[last.key[1]]
        IN  \A j \in 1..Min(Len(before), Len(after)) :
               MatchTask(after[j]).marker # MatchTask(before[j]).marker
                  => MatchTask(before[j]).text = last.text

(***************************************************************************)
(* Overlapping toggles.  Without an index service toggleTaskCompletion is  *)
(* toggleTaskCompletionDirect, which waits for vault.read and for          *)
(* vault.modify; another change handler can run at each wait.  A call of   *)
(* running is at "read" (waiting for the content), at "modify" (it has     *)
(* the content and waits for the write) or at "returned" (the handler has  *)
(* the boolean and has not gone on yet).                                   *)
(***************************************************************************)
MaxRunning == 2

\* the change handler of the checkbox of tasks[i] up to its first wait
ToggleCalled ==
    /\ Len(running) < MaxRunning
    /\ \E i \in 1..Len(tasks) :
          /\ \A k \in 1..Len(running) : TaskKey(running[k].task) # TaskKey(tasks[i])
          /\ running' = Append(running,
                [task |-> tasks[i], attached |-> TRUE, pc |-> "read", lines |-> <<>>,
                 ok |-> FALSE, wrote |-> "",
                 \* the calls that have started and not written when this one starts
                 overlaps |-> { TaskKey(running[k].task) :
                                   k \in { n \in 1..Len(running) :
                                             running[n].pc \in {"read", "modify"} } }])
    /\ last' = [op |-> "toggleCalled"]
    /\ UNCHANGED <<notes, api, host, popup, tasks, today, currentDate, showCompletedTasks,
                   grid, wheel, swipe, pendingSwipes>>

\* the surroundings of a call of toggleTaskCompletionDirect
DirectSurroundings(writeFails) ==
    [execReturn |-> "same", effect |-> FALSE, writeFails |-> writeFails]

\* vault.read of call k resolves: the call has the content as it is now, and
\* returns false when the line is not there or is no checklist line
VaultReadResolves ==
    /\ \E k \in 1..Len(running) :
          /\ running[k].pc = "read"
          /\ LET call == running[k]
                 lines == notes[call.task.path]
                 out == toggleTaskCompletionDirect(call.task, notes,
                                                   DirectSurroundings(FALSE))
             IN  running' = [running EXCEPT ![k] =
                               IF out.ok THEN [call EXCEPT !.pc = "modify", !.lines = lines]
                               ELSE [call EXCEPT !.pc = "returned", !.lines = lines]]
    /\ last' = [op |-> "read"]
    /\ UNCHANGED <<notes, api, host, popup, tasks, today, currentDate, showCompletedTasks,
                   grid, wheel, swipe, pendingSwipes>>

\* vault.modify of call k resolves or throws: the note becomes the content the
\* call has read with the task's line replaced, task.isCompleted is set and the
\* call returns
VaultModifyResolves ==
    /\ \E k \in 1..Len(running), writeFails \in BOOLEAN :
          /\ running[k].pc = "modify"
          /\ LET call == running[k]
                 path == call.task.path
                 out == toggleTaskCompletionDirect(
                           call.task, [notes EXCEPT ![path] = call.lines],
                           DirectSurroundings(writeFails))
                 task == [call.task EXCEPT !.isCompleted = out.isCompleted]
             IN  /\ notes' = [notes EXCEPT ![path] = out.notes[path]]
                 /\ running' = [running EXCEPT ![k] =
                       [call EXCEPT !.pc = "returned", !.ok = out.ok, !.task = task,
                                    !.wrote = IF out.ok
                                              THEN MatchTask(out.notes[path][call.task.line + 1]).marker
                                              ELSE ""]]
                 \* the task is an object of this.tasks until the list is loaded anew
                 /\ tasks' = IF call.attached
                             THEN [i \in 1..Len(tasks) |->
                                     IF TaskKey(tasks[i]) = TaskKey(call.task)
                                     THEN [tasks[i] EXCEPT !.isCompleted = out.isCompleted]
                                     ELSE tasks[i]]
                             ELSE tasks
    /\ last' = [op |-> "modify"]
    /\ UNCHANGED <<api, host, popup, today, currentDate, showCompletedTasks,
                   grid, wheel, swipe, pendingSwipes>>

\* the change handler goes on after the call has returned: on success loadTasks
\* and render, which put new objects in this.tasks
HandlerGoesOn ==
    /\ \E k \in 1..Len(running) :
          /\ running[k].pc = "returned"
          /\ LET rest == [n \in 1..(Len(running) - 1) |->
                            IF n < k THEN running[n] ELSE running[n + 1]]
             IN  IF running[k].ok
                 THEN \E loaded \in {loadTasksResult(RawTasks(api, notes, host, today, {}))} :
                         /\ tasks' = loaded
                         /\ grid' = renderCalendar(loaded, today, showCompletedTasks,
                                                   currentDate)
                         /\ wheel' = [WheelInit EXCEPT !.sinceChange = wheel.sinceChange]
                         /\ swipe' = SwipeIdle
                         /\ running' = [n \in 1..Len(rest) |->
                                          [rest[n] EXCEPT !.attached = FALSE]]
                 ELSE /\ running' = rest
                      /\ UNCHANGED <<tasks, grid, wheel, swipe>>
          /\ last' = [op |-> "handler", ok |-> running[k].ok]
    /\ UNCHANGED <<notes, api, host, popup, today, currentDate, showCompletedTasks,
                   pendingSwipes>>

InitOverlap ==
    /\ notes \in { [path \in {PathA, PathB} |->
                      IF path = PathA THEN <<ToggleLine(ma), OtherTaskLine(mb)>>
                      ELSE <<LineOther>>] :
                   ma \in {" ", "x"}, mb \in {" ", "x"} }
    /\ api = NoApi
    /\ host = HostDefault
    /\ popup = NoPopup
    /\ today = MakeDay(MinYear, 2, 1)
    /\ tasks = loadTasksResult(RawTasks(api, notes, host, today, {}))
    /\ currentDate = DateOfDay(today)
    /\ showCompletedTasks = TRUE
    /\ grid = renderCalendar(tasks, today, showCompletedTasks, currentDate)
    /\ wheel = WheelInit
    /\ swipe = SwipeIdle
    /\ pendingSwipes = <<>>
    /\ running = <<>>
    /\ last = NoLast

NextOverlap == ToggleCalled \/ VaultReadResolves \/ VaultModifyResolves \/ HandlerGoesOn

SpecOverlap == InitOverlap /\ [][NextOverlap]_vars

\* the marker now on the line of the task of a call
MarkerOnDisk(call) ==
    LET lines == notes[call.task.path]
    IN  IF call.task.line < Len(lines) THEN MatchTask(lines[call.task.line + 1]).marker
        ELSE ""

\* C37: when two calls for tasks on different lines of one note have both
\* returned true, and the second started before the first had written, the
\* note has the marker each of them wrote on its line, and isCompleted of each
\* task is what the marker on its line says.
C37_BothChangesKept ==
    \A j \in 1..Len(running), k \in 1..Len(running) :
        ( /\ j # k
          /\ running[j].pc = "returned" /\ running[j].ok
          /\ running[k].pc = "returned" /\ running[k].ok
          /\ running[j].task.path = running[k].task.path
          /\ running[j].task.line # running[k].task.line
          /\ TaskKey(running[j].task) \in running[k].overlaps )
        => \A c \in {running[j], running[k]} :
              /\ MarkerOnDisk(c) = c.wrote
              /\ c.task.isCompleted = IsDone(MarkerOnDisk(c))

(***************************************************************************)
(* Overlapping loads.  loadTasks empties this.tasks, takes the listing of  *)
(* the index service (or the files of the vault) and then waits for        *)
(* vault.read once for each entry (each file), pushing into this.tasks     *)
(* after each read; the filter and the deduplication follow the last read. *)
(* Another run, a write of a note or the index service can act at each     *)
(* wait.  A run of running has its listing and the position k in it.       *)
(***************************************************************************)
\* what a run goes through: the entries of the listing (the files of the vault)
\* that get to the read
RunItems(tasksApi, ns, hst) ==
    IF tasksApi.present /\ tasksApi.listing # "none"
    THEN SelectSeq(tasksApi.tasks,
                   LAMBDA entry : /\ entry.path \in DOMAIN ns
                                  /\ InScanScope(entry.path, hst))
    ELSE SelectSeq(MarkdownFiles(ns), LAMBDA path : InScanScope(path, hst))

\* what the run pushes after the read for its item
Pushed(run, item, ns, hst, td) ==
    IF run.fromApi THEN ApiTaskOf(item, ns, hst, td, {})
    ELSE ManualFrom(<<item>>, 1, ns, hst, td, {})

\* the start of loadTasks up to its first wait
StartedRun(tasksApi, ns, hst) ==
    [fromApi |-> tasksApi.present /\ tasksApi.listing # "none",
     items |-> RunItems(tasksApi, ns, hst), k |-> 1]

\* history: the vault and the listing when the latest run started
LoadHistory(op, ns, tasksApi) ==
    [op |-> op, startNotes |-> ns, startApi |-> tasksApi]

\* a toggle's vault.modify has written the other marker on a line of note A, and
\* the modify listener starts loadTasks; the index service has not seen the write
NoteWritten ==
    /\ Len(running) < MaxRunning
    /\ \E i \in 1..Len(notes[PathA]) :
          \E ns \in {WriteLine(notes, PathA, i - 1, ExternalToggleLine(notes[PathA][i]))} :
             /\ notes' = ns
             /\ running' = Append(running, StartedRun(api, ns, host))
             /\ last' = LoadHistory("write", ns, api)
    /\ tasks' = <<>>
    /\ UNCHANGED <<api, host, popup, today, currentDate, showCompletedTasks, grid,
                   wheel, swipe, pendingSwipes>>

\* the index service takes in the notes as they are
IndexUpdated ==
    /\ api.present
    /\ api # IndexApi(notes)
    /\ api' = IndexApi(notes)
    /\ last' = [last EXCEPT !.op = "index"]
    /\ UNCHANGED <<notes, host, popup, tasks, today, currentDate, showCompletedTasks, grid,
                   wheel, swipe, pendingSwipes, running>>

\* loadTasks is called by a change handler after its toggle has returned
LoadCalled ==
    /\ Len(running) < MaxRunning
    /\ last.op # "none"
    /\ running' = Append(running, StartedRun(api, notes, host))
    /\ tasks' = <<>>
    /\ last' = LoadHistory("loadCalled", notes, api)
    /\ UNCHANGED <<notes, api, host, popup, today, currentDate, showCompletedTasks, grid,
                   wheel, swipe, pendingSwipes>>

\* a vault.read of run r resolves: the run pushes; after its last item it
\* filters and deduplicates this.tasks, and its caller renders
LoadReadResolves ==
    /\ \E r \in 1..Len(running) :
          LET run == running[r]
              raw == tasks \o Pushed(run, run.items[run.k], notes, host, today)
              rest == [n \in 1..(Len(running) - 1) |->
                         IF n < r THEN running[n] ELSE running[n + 1]]
          IN  /\ run.k <= Len(run.items)
              /\ IF run.k < Len(run.items)
                 THEN /\ tasks' = raw
                      /\ running' = [running EXCEPT ![r].k = run.k + 1]
                      /\ grid' = grid
                      /\ last' = [last EXCEPT !.op = "read"]
                 ELSE \E loaded \in {loadTasksResult(raw)} :
                         /\ tasks' = loaded
                         /\ running' = rest
                         /\ grid' = renderCalendar(loaded, today, showCompletedTasks,
                                                   currentDate)
                         /\ last' = [last EXCEPT !.op = "loaded"]
    /\ UNCHANGED <<notes, api, host, popup, today, currentDate, showCompletedTasks,
                   wheel, swipe, pendingSwipes>>

InitReload ==
    /\ notes \in { [path \in {PathA, PathB} |->
                      IF path = PathA THEN <<ToggleLine(ma), OtherTaskLine(mb)>>
                      ELSE <<LineOther>>] :
                   ma \in {" ", "x"}, mb \in {" ", "x"} }
    /\ api \in {NoApi, IndexApi(notes)}
    /\ host = HostDefault
    /\ popup = NoPopup
    /\ today = MakeDay(MinYear, 2, 1)
    /\ tasks = loadTasksResult(RawTasks(api, notes, host, today, {}))
    /\ currentDate = DateOfDay(today)
    /\ showCompletedTasks = TRUE
    /\ grid = renderCalendar(tasks, today, showCompletedTasks, currentDate)
    /\ wheel = WheelInit
    /\ swipe = SwipeIdle
    /\ pendingSwipes = <<>>
    /\ running = <<>>
    /\ last = NoLast

NextReload == NoteWritten \/ IndexUpdated \/ LoadCalled \/ LoadReadResolves

SpecReload == InitReload /\ [][NextReload]_vars

\* every run has finished, the latest of them started on the vault and the
\* listing as they are now, and the index service has taken in the vault
AllLoadsFinished ==
    /\ last.op = "loaded"
    /\ running = <<>>
    /\ last.startNotes = notes
    /\ last.startApi = api
    /\ api.present => api = IndexApi(notes)

TaskSet(ts) == { ts[i] : i \in 1..Len(ts) }

\* C36: when all the runs have finished, this.tasks has the tasks one run alone
\* gives on the vault as it is, each once: none is missing, none is there
\* twice, and none is from an older state.
C36_AsOneRun ==
    AllLoadsFinished =>
        LET alone == loadTasksResult(RawTasks(api, notes, host, today, {}))
        IN  /\ TaskSet(tasks) = TaskSet(alone)
            /\ Len(tasks) = Len(alone)

\* the system is quiet: a write has been followed by its loads, no run is in
\* progress, and the index service has taken in the vault
Quiet ==
    /\ last.op \notin {"none", "write", "loadCalled", "read"}
    /\ running = <<>>
    /\ api.present => api = IndexApi(notes)

\* C35: every write of a toggle is followed by a run of loadTasks and a
\* rendering of its result, and once the system is quiet the grid has the tasks
\* that loadTasks gives on the vault as it is.
C35_QuietGridCurrent ==
    Quiet =>
        TaskSet(grid.tasks) =
            TaskSet(loadTasksResult(RawTasks(api, notes, host, today, {})))

(***************************************************************************)
(* The change handler of a bound checkbox, one call at a time: the click,  *)
(* the wait for toggleTaskCompletion, and what follows its return.  The    *)
(* checkboxes are the entries of popup.bound, each with its task and the   *)
(* value it shows.                                                         *)
(***************************************************************************)
\* the checkboxes of the popup when each task has one list item of its own
BoundTo(ts) ==
    [k \in 1..Len(ts) |->
       [item |-> [task |-> ts[k], nested |-> FALSE, checkbox |-> TRUE],
        task |-> ts[k], checked |-> ts[k].isCompleted]]

\* variant: the checkbox keeps the value the click gave it
HeldValueAsClicked(wasChecked, isCompleted) == wasChecked

\* taskCheckbox.checked = task.isCompleted, while the call is waited for
HeldValue(wasChecked, isCompleted) == isCompleted

\* taskCheckbox.checked = !wasChecked, after a call that returned false
RevertedValue(wasChecked) == ~wasChecked

\* the checkbox k is clicked: the browser gives it the other value, and the
\* handler runs up to its wait for toggleTaskCompletion
CheckboxClicked ==
    /\ popup.open
    /\ running = <<>>
    /\ \E k \in 1..Len(popup.bound) :
          LET box == popup.bound[k]
              wasChecked == ~box.checked
          IN  /\ popup' = [popup EXCEPT !.bound[k].checked =
                                           HeldValue(wasChecked, box.task.isCompleted)]
              /\ running' = << [k |-> k, pc |-> "toggle", wasChecked |-> wasChecked,
                                pre |-> box.task.isCompleted,
                                noteBefore |-> notes[box.task.path]] >>
              /\ last' = [op |-> "click", k |-> k]
    /\ UNCHANGED <<notes, api, host, tasks, today, currentDate, showCompletedTasks,
                   grid, wheel, swipe, pendingSwipes>>

\* toggleTaskCompletion returns: on true the checkbox gets task.isCompleted and
\* the handler waits for loadTasks, on false the checkbox gets !wasChecked
ToggleReturns ==
    /\ Len(running) = 1 /\ running[1].pc = "toggle"
    /\ LET call == running[1]
           box == popup.bound[call.k]
       IN  \E out \in { toggleTaskCompletion(box.task, notes, api, host, fx) :
                           fx \in Surroundings } :
              /\ notes' = out.notes
              /\ popup' = [popup EXCEPT
                             !.bound[call.k].task.isCompleted = out.isCompleted,
                             !.bound[call.k].checked =
                                 IF out.ok THEN out.isCompleted
                                 ELSE RevertedValue(call.wasChecked)]
              /\ running' = IF out.ok THEN << [call EXCEPT !.pc = "loadTasks"] >>
                            ELSE <<>>
              /\ last' = [op |-> "returned", k |-> call.k, ok |-> out.ok,
                          pre |-> call.pre, post |-> out.isCompleted,
                          path |-> box.task.path, noteBefore |-> call.noteBefore]
    /\ UNCHANGED <<api, host, tasks, today, currentDate, showCompletedTasks,
                   grid, wheel, swipe, pendingSwipes>>

\* after a call that returned true: loadTasks, render, the tasks of the popup's
\* date from the view, sorted, and onOpen, which makes the checkboxes anew
HandlerReloads ==
    /\ Len(running) = 1 /\ running[1].pc = "loadTasks"
    /\ \E loaded \in {loadTasksResult(RawTasks(api, notes, host, today, {}))} :
          /\ tasks' = loaded
          /\ grid' = renderCalendar(loaded, today, showCompletedTasks, currentDate)
          /\ \E shown \in {SortIncompleteFirst(getTasksForDate(loaded, today, popup.date))} :
                popup' = [popup EXCEPT !.tasks = shown, !.bound = BoundTo(shown)]
    /\ wheel' = [WheelInit EXCEPT !.sinceChange = wheel.sinceChange]
    /\ swipe' = SwipeIdle
    /\ running' = <<>>
    /\ last' = [op |-> "reloaded"]
    /\ UNCHANGED <<notes, api, host, today, currentDate, showCompletedTasks, pendingSwipes>>

HandlerApiChoices ==
    { NoApi,
      ToggleApi(<<>>, "ok", "none", NoTaskMethods),
      ToggleApi(<<EntryOpen>>, "none", "ok", NoTaskMethods),
      ToggleApi(<<EntryOpen>>, "none", "none", TaskMethods("throws", "throws", "throws")) }

InitHandler ==
    /\ notes \in { [path \in {PathA, PathB} |->
                      IF path = PathA THEN <<ToggleLine(ma), OtherTaskLine(mb)>>
                      ELSE <<LineOther>>] :
                   ma \in {" ", "x", "X"}, mb \in {" ", "x"} }
    /\ api \in HandlerApiChoices
    /\ host \in {HostDefault, [HostDefault EXCEPT !.command = TRUE,
                                                  !.commandIds = {"tasks:toggle-done"}]}
    /\ today = MakeDay(MinYear, 2, 1)
    /\ tasks = loadTasksResult(RawTasks(api, notes, host, today, {}))
    /\ currentDate = DateOfDay(today)
    /\ showCompletedTasks = TRUE
    /\ grid = renderCalendar(tasks, today, showCompletedTasks, currentDate)
    /\ wheel = WheelInit
    /\ swipe = SwipeIdle
    /\ pendingSwipes = <<>>
    /\ \E shown \in {SortIncompleteFirst(getTasksForDate(tasks, today, today))} :
          popup = [NoPopup EXCEPT !.open = TRUE, !.date = today, !.tasks = shown,
                                  !.bound = BoundTo(shown)]
    /\ running = <<>>
    /\ last = NoLast

NextHandler == CheckboxClicked \/ ToggleReturns \/ HandlerReloads

SpecHandler == InitHandler /\ [][NextHandler]_vars

\* C31: while the call of a clicked checkbox is waited for, the checkbox shows
\* isCompleted of its task as it was at the click; when the call has returned
\* true it shows isCompleted of the task as it is then; when the call has
\* returned false it shows the value of before, and the note of the task is as
\* it was at the click.
C31_CheckboxHeld ==
    /\ \A n \in 1..Len(running) :
          running[n].pc = "toggle" =>
              popup.bound[running[n].k].checked = running[n].pre
    /\ last.op = "returned" =>
          LET box == popup.bound[last.k]
          IN  IF last.ok THEN box.checked = box.task.isCompleted /\ box.checked = last.post
              ELSE box.checked = last.pre /\ notes[last.path] = last.noteBefore

\* a call has returned false for a checkbox that the click had changed
C31_Witness ==
    /\ last.op = "returned" /\ ~last.ok
    /\ popup.bound[last.k].checked = last.pre

=============================================================================
